---- MODULE Spec2Model ----
(***************************************************************************)
(* Verification model of the Caissa search core: the lockless              *)
(* transposition-table slot, the staged move picker, repetition detection, *)
(* the history counters, the cuckoo table initialisation and the           *)
(* iterative-deepening driver.  Each component has its own specification   *)
(* (SpecTT, SpecPicker, ...) over its own variables; the variables of the  *)
(* other components are parked.                                            *)
(***************************************************************************)
EXTENDS Integers, Sequences, FiniteSets, TLC

VARIABLES
    \* --- transposition table slot (TranspositionTable::InternalEntry) ---
    slot,       \* [key, entry, keyBy, entryBy]: the two fields and who wrote each
    wr,         \* writer thread -> [pc, positionKey, newEntry] (one Store each)
    rd,         \* the probing thread: [pc, positionKey, key, keyBy, outHash, outEntry, entryBy]
    \* --- move picker (MovePicker) ---
    pin,        \* constructor arguments: [pvMove, ttMove, killers, counter, generateQuiets]
    picker,     \* [stage, moveIndex, moves, killerMoves, counterMove] (the m_ fields)
    yielded,    \* the moves PickMove has returned so far, in order
    entered,    \* the case blocks of PickMove that have run so far
    lastRet,    \* what the last PickMove call returned ("none" before the first call)
    \* --- repetition detection (SearchUtils::IsRepetition) ---
    stack,      \* the search stack: NodeInfo records, the root first
    game,       \* the positions the played game has seen at least twice
    repResult,  \* what IsRepetition returned for the top node ("none": not called)
    \* --- history counters (MoveOrderer) ---
    followed,   \* the table the followed counter belongs to
    counter,    \* the followed counter (CounterType, int16_t)
    \* --- iterative-deepening driver (Search::DoSearch) and the PV array ---
    rootPos,    \* the position searched
    param,      \* SearchParam: [numPvLines, maxDepth, maxTimeFinite]
    ds,         \* DoSearch: [pc, depth, pvIndex, numPvLines, pvMovesSoFar, score]
    asp,        \* AspirationWindowSearch: [alpha, beta, aspirationWindow]
    pvArray,    \* pvArray[d][j], the rows of the root (d = 0) and of its child
    pvLengths,  \* pvLengths[d]
    result,     \* SearchResult: the PvLine [score, moves] of every pvIndex
    timeUp,     \* param.GetElapsedTime() > param.maxTime
    stop,       \* where DoSearch was when the time ran out: [depth, pvIndex, pc]
    completed,  \* the last depth whose iteration ran to its end (line 206)
    outLine,    \* a reconstructed PV line: [by, maxLength, moves]
    \* --- cuckoo table (SearchUtils::Init) ---
    cuckoo,     \* the loops of Init: [pc, color, piece, squareA]
    cuckooKeys, \* the keys in gCuckooTable
    count,      \* the local count of Init
    \* --- network file loader (PackedNeuralNetwork) ---
    nnPlatform, \* the build: "posix" or "windows" (PLATFORM_WINDOWS)
    nn,         \* the object's fields and what the operating system holds for it
    nnFile,     \* the file the last Load was given
    nnCall,     \* the last call: "none", "Load", "Resize" or "Release"
    nnRet,      \* what the last call returned
    \* --- NegaMax along one path of the tree ---
    node,       \* the call of NegaMax or QuiescenceNegaMax being executed
    ttable,     \* the entry mTranspositionTable holds for the followed position
    \* --- the call on top of the search stack, by height (Search.cpp, NodeInfo) ---
    nodeInfo,   \* [kind, depth, maxDepth, isNullMove, parentIsNullMove] of the call running
    pvIndexed,  \* the index the call used on pvLengths (lines 436, 559), -1 before any
    \* --- move ordering of the NegaMax move list (Search.cpp lines 280-337, 755-773) ---
    ordering,   \* [pc, inputs of the ordering, score of each move, first move picked]
    \* --- the loop of AspirationWindowSearch (Search.cpp lines 219-273) ---
    aspiration, \* [pc, depth, previousScore, alpha, beta, aspirationWindow, retries, score]
    \* --- the NodeInfo stack CanReachGameCycle walks (SearchUtils.cpp lines 70-120) ---
    chain,      \* the nodes from the root to the current node: [height, isNullMove, previousMove, halfMoveCount]
    cycle,      \* [called, answers, examined, ret] of the last CanReachGameCycle call
    \* --- the MoveOrderer tables of the listed moves and the last call on them (src/unnamed/part_001 lines 142-206) ---
    history,
    lastCall,
    \* --- Search::killerMoves (src/unnamed/part_000 line 108) ---
    killerMoves

ttVars == <<slot, wr, rd>>
pickerVars == <<pin, picker, yielded, entered, lastRet>>
repVars == <<stack, game, repResult>>
historyVars == <<followed, counter>>

searchVars == <<param, ds, asp, result, timeUp, stop, completed>>
pvVars == <<rootPos, pvArray, pvLengths>>
lineVars == <<outLine>>
cuckooVars == <<cuckoo, cuckooKeys, count>>
nnVars == <<nnPlatform, nn, nnFile, nnCall, nnRet>>
nodeVars == <<node, ttable>>
heightVars == <<nodeInfo, pvIndexed>>
orderVars == <<ordering>>
aspirationVars == <<aspiration>>
cycleVars == <<chain, cycle>>
ordererVars == <<history, lastCall>>
killerVars == <<killerMoves>>
vars == <<ttVars, pickerVars, repVars, historyVars, searchVars, pvVars, lineVars, cuckooVars, nnVars, nodeVars, heightVars, orderVars, aspirationVars, cycleVars, ordererVars, killerVars>>

\* the value of the variables of a component that takes no part in a
\* specification
Parked == <<>>

(***************************************************************************)
(* Bit operations on unsigned machine words.                               *)
(***************************************************************************)
RECURSIVE XorBits(_, _, _)
XorBits(a, b, n) ==
    IF n = 0 \/ (a = 0 /\ b = 0) THEN 0
    ELSE ((a + b) % 2) + 2 * XorBits(a \div 2, b \div 2, n - 1)

\* uint32_t operator ^
Xor32(a, b) == XorBits(a, b, 32)

(***************************************************************************)
(* Transposition table: TTEntry, InternalEntry::Load / Store.              *)
(***************************************************************************)
\* bounds of the model
MaxKey == 2         \* position keys 1..MaxKey
MaxField == 1       \* score and packed move range over 0..MaxField

\* TTEntry::Bounds
BoundsInvalid == 0
BoundsExact == 3

\* TTEntry::TTEntry(): score 0, staticEval 0, move Invalid (0), depth 0, Invalid bounds
DefaultEntry == [score |-> 0, staticEval |-> 0, move |-> 0, depth |-> 0,
                 bounds |-> BoundsInvalid, generation |-> 0]

\* the entries the writers store: valid entries of depth 1 with exact bounds
StoredEntries ==
    { [score |-> s, staticEval |-> 0, move |-> m, depth |-> 1,
       bounds |-> BoundsExact, generation |-> 0] : s \in 0..MaxField, m \in 0..MaxField }

PositionKeys == 1..MaxKey

\* the two 32-bit words t[0], t[1] that GetHash reads over the 8-byte entry
\* (little endian: score, staticEval | move, depth, bounds:2, generation:6)
EntryWord0(e) == e.score + 65536 * e.staticEval
EntryWord1(e) == e.move + 65536 * e.depth + 16777216 * e.bounds + 67108864 * e.generation

\* TTEntry::GetHash: t[0] ^ t[1]
GetHash(e) == Xor32(EntryWord0(e), EntryWord1(e))

\* TTEntry::IsValid
IsValid(e) == e.bounds # BoundsInvalid

\* InternalEntry::Store, first statement: key = positionKey ^ newEntry.GetHash()
StoreKey(positionKey, newEntry) == Xor32(positionKey, GetHash(newEntry))

\* (mutant: the entry hash is left out of the reconstruction)
LoadHashPlain(key, entry) == key
\* InternalEntry::Load, first statement: outHash = key ^ entry.GetHash()
LoadHash(key, entry) == Xor32(key, GetHash(entry))

Writers == {1, 2}

IdleWriter == [pc |-> "idle", positionKey |-> 0, newEntry |-> DefaultEntry]
IdleReader == [pc |-> "idle", positionKey |-> 0, key |-> 0, keyBy |-> 0,
               outHash |-> 0, outEntry |-> DefaultEntry, entryBy |-> 0]

\* a cleared table: memset 0, i.e. key 0 and a default entry; written by nobody (0)
InitTT ==
    /\ slot = [key |-> 0, entry |-> DefaultEntry, keyBy |-> 0, entryBy |-> 0]
    /\ wr = [w \in Writers |-> IdleWriter]
    /\ rd = IdleReader
    /\ pin = Parked /\ picker = Parked /\ yielded = Parked /\ entered = Parked
    /\ lastRet = Parked
    /\ stack = Parked /\ game = Parked /\ repResult = Parked
    /\ followed = Parked /\ counter = Parked
    /\ rootPos = Parked /\ pvArray = Parked /\ pvLengths = Parked /\ outLine = Parked
    /\ param = Parked /\ ds = Parked /\ asp = Parked /\ result = Parked
    /\ timeUp = Parked /\ stop = Parked /\ completed = Parked
    /\ cuckoo = Parked /\ cuckooKeys = Parked /\ count = Parked
    /\ nnPlatform = Parked /\ nn = Parked /\ nnFile = Parked /\ nnCall = Parked /\ nnRet = Parked
    /\ node = Parked /\ ttable = Parked
    /\ nodeInfo = Parked /\ pvIndexed = Parked
    /\ ordering = Parked
    /\ aspiration = Parked
    /\ chain = Parked /\ cycle = Parked
    /\ history = Parked /\ lastCall = Parked
    /\ killerMoves = Parked

\* Store, line 69: the key word is written
StoreWriteKey(w) ==
    /\ wr[w].pc = "idle"
    /\ \E k \in PositionKeys, e \in StoredEntries :
        /\ wr' = [wr EXCEPT ![w] = [pc |-> "key", positionKey |-> k, newEntry |-> e]]
        /\ slot' = [slot EXCEPT !.key = StoreKey(k, e), !.keyBy = w]
    /\ UNCHANGED rd

\* Store, line 70: the entry is written
StoreWriteEntry(w) ==
    /\ wr[w].pc = "key"
    /\ wr' = [wr EXCEPT ![w].pc = "done"]
    /\ slot' = [slot EXCEPT !.entry = wr[w].newEntry, !.entryBy = w]
    /\ UNCHANGED rd

\* Load, line 62 (left operand): a probe for position key p reads the key word
LoadReadKey ==
    /\ rd.pc = "idle"
    /\ \E p \in PositionKeys :
        rd' = [rd EXCEPT !.pc = "key", !.positionKey = p,
                         !.key = slot.key, !.keyBy = slot.keyBy]
    /\ UNCHANGED <<slot, wr>>

\* Load, lines 62-63: the entry is read, hashed and copied out
LoadReadEntry ==
    /\ rd.pc = "key"
    /\ rd' = [rd EXCEPT !.pc = "done",
                        !.outHash = LoadHash(rd.key, slot.entry),
                        !.outEntry = slot.entry, !.entryBy = slot.entryBy]
    /\ UNCHANGED <<slot, wr>>

\* TranspositionTable::Read: a hit when the reconstructed hash is the probing
\* key and the entry is valid
ReadAccepts == rd.pc = "done" /\ rd.outHash = rd.positionKey /\ IsValid(rd.outEntry)

(***************************************************************************)
(* C1: torn reads of a slot.                                               *)
(***************************************************************************)
\* what the Store that wrote a field was called with (0: the cleared table)
StoredKeyOf(w) == IF w = 0 THEN 0 ELSE wr[w].positionKey
StoredEntryOf(w) == IF w = 0 THEN DefaultEntry ELSE wr[w].newEntry

\* the Load saw the key word of one Store and the entry of another Store
TornRead == rd.pc = "done" /\ rd.keyBy # 0 /\ rd.entryBy # 0 /\ rd.keyBy # rd.entryBy

NumQuiets == 2              \* bound: quiet moves of the position

GoodCapture == 1
BadCapture == 2
QuietPromotion == 3
FirstQuiet == 4
LastQuiet == FirstQuiet + NumQuiets - 1
ForeignMove == LastQuiet + 1

QuietMoves == FirstQuiet..LastQuiet
PositionMoves == 1..LastQuiet
PackedMoves == 0..ForeignMove

\* Move::IsValid / PackedMove::IsValid
MoveIsValid(m) == m # 0
\* Move::IsCapture, Move::IsQuiet (no capture, no promotion)
IsCapture(m) == m \in {GoodCapture, BadCapture}
IsQuiet(m) == m \in QuietMoves \/ m = ForeignMove

\* a MoveFromPacked that hands back whatever packed value it is given
MoveFromPackedUnchecked(pm) == pm

\* Position::MoveFromPacked: the move of this position with that packed
\* value, or the invalid move
MoveFromPacked(pm) == IF pm \in PositionMoves THEN pm ELSE 0

\* Position::GenerateMoveList with MOVE_GEN_MASK_CAPTURES | MOVE_GEN_MASK_PROMOTIONS
GeneratedCaptures == {GoodCapture, BadCapture, QuietPromotion}
\* Position::GenerateMoveList with MOVE_GEN_MASK_QUIET
GeneratedQuiets == QuietMoves

\* MoveOrderer::PromotionValue on the model's score scale
PromotionValue == 2
\* MoveOrderer::ScoreMoves: winning/good captures and queen promotions score
\* at least PromotionValue, losing captures below; quiets by history
MoveScore(m) ==
    CASE m = GoodCapture -> 3
      [] m = QuietPromotion -> 2
      [] m = BadCapture -> 0
      [] OTHER -> (m - FirstQuiet) % 2

\* MoveList::BestMoveIndex: the first move with the highest score
BestMove(moves) ==
    CHOOSE m \in moves :
        \A o \in moves : MoveScore(o) < MoveScore(m) \/ (MoveScore(o) = MoveScore(m) /\ m <= o)

Stages == {"PVMove", "TTMove", "Captures", "Killer1", "Killer2", "Counter",
           "GenerateQuiets", "PickQuiets", "End"}

\* the outcome of (the rest of) one PickMove call
Outcome(p, ret, move, blocks) == [p |-> p, ret |-> ret, outMove |-> move, blocks |-> blocks]

\* a Stage::PickQuiets that returns false on the empty list and leaves
\* m_stage as it is
StagePickQuietsNoEnd(p, blocks) ==
    IF p.moves # {}
    THEN Outcome([p EXCEPT !.moves = p.moves \ {BestMove(p.moves)}], TRUE, BestMove(p.moves),
                 blocks \cup {"PickQuiets"})
    ELSE Outcome(p, FALSE, 0, blocks \cup {"PickQuiets"})

\* case Stage::PickQuiets (lines 160-178)
StagePickQuiets(p, blocks) ==
    IF p.moves # {}
    THEN Outcome([p EXCEPT !.moves = p.moves \ {BestMove(p.moves)}], TRUE, BestMove(p.moves),
                 blocks \cup {"PickQuiets"})
    ELSE Outcome([p EXCEPT !.stage = "End"], FALSE, 0, blocks \cup {"PickQuiets"})

\* a Stage::GenerateQuiets whose move generation overwrites the list
StageGenerateQuietsOverwriting(p, blocks) ==
    LET removed == {pin.pvMove, pin.ttMove, p.killerMoves[1], p.killerMoves[2], p.counterMove}
        p1 == [p EXCEPT !.stage = "PickQuiets",
                        !.moves = IF pin.generateQuiets
                                  THEN GeneratedQuiets \ removed
                                  ELSE p.moves]
    IN  StagePickQuiets(p1, blocks \cup {"GenerateQuiets"})

\* case Stage::GenerateQuiets (lines 140-158)
StageGenerateQuiets(p, blocks) ==
    LET removed == {pin.pvMove, pin.ttMove, p.killerMoves[1], p.killerMoves[2], p.counterMove}
        p1 == [p EXCEPT !.stage = "PickQuiets",
                        !.moves = IF pin.generateQuiets
                                  THEN (p.moves \cup GeneratedQuiets) \ removed
                                  ELSE p.moves]
    IN  StagePickQuiets(p1, blocks \cup {"GenerateQuiets"})

\* case Stage::Counter (lines 118-138)
StageCounter(p, blocks) ==
    LET p1 == [p EXCEPT !.stage = "GenerateQuiets"]
        move == pin.counter
        counterMove == MoveFromPacked(move)
    IN  IF /\ MoveIsValid(move) /\ move # pin.pvMove /\ move # pin.ttMove
           /\ move # pin.killers[1] /\ move # pin.killers[2]
           /\ MoveIsValid(counterMove) /\ ~IsCapture(counterMove)
        THEN Outcome([p1 EXCEPT !.counterMove = counterMove], TRUE, counterMove,
                     blocks \cup {"Counter"})
        ELSE StageGenerateQuiets(p1, blocks \cup {"Counter"})

\* line 102: the stage Killer2 leaves in m_stage
Killer2NextStage == "GenerateQuiets"

\* case Stage::Killer2 (lines 100-116)
StageKiller2(p, blocks) ==
    LET p1 == [p EXCEPT !.stage = Killer2NextStage]
        slotMove == pin.killers[2]
        move == MoveFromPacked(slotMove)
    IN  IF /\ MoveIsValid(slotMove) /\ slotMove # pin.pvMove /\ slotMove # pin.ttMove
           /\ MoveIsValid(move) /\ ~IsCapture(move)
        THEN Outcome([p1 EXCEPT !.killerMoves[2] = move], TRUE, move, blocks \cup {"Killer2"})
        ELSE StageCounter(p1, blocks \cup {"Killer2"})

\* case Stage::Killer1 (lines 82-98)
StageKiller1(p, blocks) ==
    LET p1 == [p EXCEPT !.stage = "Killer2"]
        slotMove == pin.killers[1]
        move == MoveFromPacked(slotMove)
    IN  IF /\ MoveIsValid(slotMove) /\ slotMove # pin.pvMove /\ slotMove # pin.ttMove
           /\ MoveIsValid(move) /\ ~IsCapture(move)
        THEN Outcome([p1 EXCEPT !.killerMoves[1] = move], TRUE, move, blocks \cup {"Killer1"})
        ELSE StageKiller2(p1, blocks \cup {"Killer1"})

\* case Stage::Captures (lines 54-80)
StageCaptures(p, blocks) ==
    IF p.moves # {} /\ MoveScore(BestMove(p.moves)) >= PromotionValue
    THEN Outcome([p EXCEPT !.moves = p.moves \ {BestMove(p.moves)}], TRUE, BestMove(p.moves),
                 blocks \cup {"Captures"})
    ELSE IF ~pin.generateQuiets
    THEN Outcome([p EXCEPT !.stage = "End"], FALSE, 0, blocks \cup {"Captures"})
    ELSE StageKiller1([p EXCEPT !.stage = "Killer1"], blocks \cup {"Captures"})

\* TTEntry::NumMoves
NumMoves == 1

\* case Stage::TTMove (lines 26-52); with NumMoves = 1 the loop runs at most once
StageTTMove(p, blocks) ==
    LET move == MoveFromPacked(pin.ttMove)
    IN  IF /\ p.moveIndex < NumMoves
           /\ MoveIsValid(move) /\ (~IsQuiet(move) \/ pin.generateQuiets) /\ move # pin.pvMove
        THEN Outcome([p EXCEPT !.moveIndex = p.moveIndex + 1], TRUE, move, blocks \cup {"TTMove"})
        ELSE StageCaptures([p EXCEPT !.stage = "Captures", !.moveIndex = 0,
                                     !.moves = GeneratedCaptures \ {pin.pvMove, pin.ttMove}],
                           blocks \cup {"TTMove"})

\* case Stage::PVMove (lines 13-24)
StagePVMove(p, blocks) ==
    LET p1 == [p EXCEPT !.stage = "TTMove"]
    IN  IF MoveIsValid(pin.pvMove) /\ (~IsQuiet(pin.pvMove) \/ pin.generateQuiets)
        THEN Outcome(p1, TRUE, pin.pvMove, blocks \cup {"PVMove"})
        ELSE StageTTMove(p1, blocks \cup {"PVMove"})

\* the switch (m_stage) of PickMove
PickMoveOutcome(p) ==
    CASE p.stage = "PVMove" -> StagePVMove(p, {})
      [] p.stage = "TTMove" -> StageTTMove(p, {})
      [] p.stage = "Captures" -> StageCaptures(p, {})
      [] p.stage = "Killer1" -> StageKiller1(p, {})
      [] p.stage = "Killer2" -> StageKiller2(p, {})
      [] p.stage = "Counter" -> StageCounter(p, {})
      [] p.stage = "GenerateQuiets" -> StageGenerateQuiets(p, {})
      [] p.stage = "PickQuiets" -> StagePickQuiets(p, {})
      [] OTHER -> Outcome(p, FALSE, 0, {})

IdlePicker == [stage |-> "PVMove", moveIndex |-> 0, moves |-> {},
               killerMoves |-> <<0, 0>>, counterMove |-> 0]

\* a freshly constructed picker, for any PV move, TT move, killer slots,
\* counter move and move generation flags
InitPicker ==
    /\ pin \in [pvMove : PackedMoves, ttMove : PackedMoves,
                killers : PackedMoves \X PackedMoves, counter : PackedMoves,
                generateQuiets : BOOLEAN]
    /\ picker = IdlePicker
    /\ yielded = <<>>
    /\ entered = {}
    /\ lastRet = "none"
    /\ slot = Parked /\ wr = Parked /\ rd = Parked
    /\ stack = Parked /\ game = Parked /\ repResult = Parked
    /\ followed = Parked /\ counter = Parked
    /\ rootPos = Parked /\ pvArray = Parked /\ pvLengths = Parked /\ outLine = Parked
    /\ param = Parked /\ ds = Parked /\ asp = Parked /\ result = Parked
    /\ timeUp = Parked /\ stop = Parked /\ completed = Parked
    /\ cuckoo = Parked /\ cuckooKeys = Parked /\ count = Parked
    /\ nnPlatform = Parked /\ nn = Parked /\ nnFile = Parked /\ nnCall = Parked /\ nnRet = Parked
    /\ node = Parked /\ ttable = Parked
    /\ nodeInfo = Parked /\ pvIndexed = Parked
    /\ ordering = Parked
    /\ aspiration = Parked
    /\ chain = Parked /\ cycle = Parked
    /\ history = Parked /\ lastCall = Parked
    /\ killerMoves = Parked

\* one call of MovePicker::PickMove; a call made at Stage::End after a call
\* made at Stage::End leaves every variable as it is
PickMove ==
    /\ LET o == PickMoveOutcome(picker)
       IN  /\ picker' = o.p
           /\ yielded' = IF o.ret THEN Append(yielded, o.outMove) ELSE yielded
           /\ entered' = entered \cup o.blocks
           /\ lastRet' = IF o.ret THEN "true"
                         ELSE IF picker.stage = "End" THEN "falseAtEnd" ELSE "false"
    /\ UNCHANGED pin

(***************************************************************************)
(* Repetition detection: SearchUtils::IsRepetition over the search stack.  *)
(*                                                                         *)
(* A position is the place of one white and one black piece, the number of *)
(* irreversible moves (pawn moves, captures) made so far and the side to   *)
(* move.  A reversible move takes the mover's piece to its other place.    *)
(***************************************************************************)
MaxHeight == 4              \* bound: the deepest node of the search stack

RootPosition == [w |-> 0, b |-> 0, irr |-> 0, stm |-> "w"]
OtherSide(c) == IF c = "w" THEN "b" ELSE "w"

\* Move::Invalid (the previous move of the root and of a null-move node)
InvalidMove == [valid |-> FALSE, piece |-> "None", capture |-> FALSE]
ReversibleMove == [valid |-> TRUE, piece |-> "Knight", capture |-> FALSE]
SearchMoves ==
    { [valid |-> TRUE, piece |-> pc, capture |-> c] : pc \in {"Knight", "Pawn"}, c \in BOOLEAN }

\* Position::DoMove: a quiet piece move relocates the piece; a pawn move or
\* a capture changes the position for good
DoMove(pos, mv) ==
    LET moved == IF mv.piece = "Pawn" THEN pos
                 ELSE IF pos.stm = "w" THEN [pos EXCEPT !.w = 1 - pos.w]
                 ELSE [pos EXCEPT !.b = 1 - pos.b]
        irrev == IF mv.piece = "Pawn" \/ mv.capture THEN moved.irr + 1 ELSE moved.irr
    IN  [moved EXCEPT !.irr = irrev, !.stm = OtherSide(pos.stm)]

\* Position::DoNullMove
DoNullMove(pos) == [pos EXCEPT !.stm = OtherSide(pos.stm)]

\* Position::GetHash: a hash that different positions may share
PositionHash(pos) == (pos.w + pos.b + pos.irr) % 2

\* (mutant: every valid previous move ends the walk)
IsIrreversibleAlways(mv) == TRUE
\* line 157: previousMove.GetPiece() == Piece::Pawn || previousMove.IsCapture()
IsIrreversible(mv) == mv.piece = "Pawn" \/ mv.capture

\* Game::GetRepetitionCount(position) >= 2, from the set of positions the
\* played game has seen twice
GameRepeated(gameTwice, pos) == pos \in gameTwice

\* the loop of IsRepetition (lines 151-182): prevNode is st[idx], node is st[top]
RECURSIVE IsRepetitionFrom(_, _, _, _, _)
IsRepetitionFrom(st, gameTwice, top, idx, ply) ==
    IF st[idx].previousMove.valid /\ IsIrreversible(st[idx].previousMove) THEN FALSE
    ELSE IF st[idx].height = 0 THEN GameRepeated(gameTwice, st[top].position)
    ELSE IF /\ ply % 2 = 0
            /\ PositionHash(st[idx - 1].position) = PositionHash(st[top].position)
            /\ st[idx - 1].position = st[top].position
         THEN TRUE
    ELSE IsRepetitionFrom(st, gameTwice, top, idx - 1, ply + 1)

\* SearchUtils::IsRepetition(node, game) for the node on top of the stack
IsRepetition(st, gameTwice) == IsRepetitionFrom(st, gameTwice, Len(st), Len(st), 1)

RootNode == [position |-> RootPosition, previousMove |-> InvalidMove,
             isNullMove |-> FALSE, height |-> 0]

\* a search stack holding the root node; the played game has seen any of two
\* positions twice
InitRep ==
    /\ stack = <<RootNode>>
    /\ game \in SUBSET {RootPosition, DoMove(DoMove(RootPosition, ReversibleMove), ReversibleMove)}
    /\ repResult = "none"
    /\ slot = Parked /\ wr = Parked /\ rd = Parked
    /\ pin = Parked /\ picker = Parked /\ yielded = Parked /\ entered = Parked
    /\ lastRet = Parked
    /\ followed = Parked /\ counter = Parked
    /\ rootPos = Parked /\ pvArray = Parked /\ pvLengths = Parked /\ outLine = Parked
    /\ param = Parked /\ ds = Parked /\ asp = Parked /\ result = Parked
    /\ timeUp = Parked /\ stop = Parked /\ completed = Parked
    /\ cuckoo = Parked /\ cuckooKeys = Parked /\ count = Parked
    /\ nnPlatform = Parked /\ nn = Parked /\ nnFile = Parked /\ nnCall = Parked /\ nnRet = Parked
    /\ node = Parked /\ ttable = Parked
    /\ nodeInfo = Parked /\ pvIndexed = Parked
    /\ ordering = Parked
    /\ aspiration = Parked
    /\ chain = Parked /\ cycle = Parked
    /\ history = Parked /\ lastCall = Parked
    /\ killerMoves = Parked

\* the search plays a move and enters the child node
SearchDoMove ==
    /\ Len(stack) <= MaxHeight
    /\ \E mv \in SearchMoves :
        stack' = Append(stack, [position |-> DoMove(stack[Len(stack)].position, mv),
                                previousMove |-> mv, isNullMove |-> FALSE,
                                height |-> Len(stack)])
    /\ repResult' = "none"
    /\ UNCHANGED game

\* the search plays a null move and enters the child node
SearchDoNullMove ==
    /\ Len(stack) <= MaxHeight
    /\ stack' = Append(stack, [position |-> DoNullMove(stack[Len(stack)].position),
                               previousMove |-> InvalidMove, isNullMove |-> TRUE,
                               height |-> Len(stack)])
    /\ repResult' = "none"
    /\ UNCHANGED game

\* the search returns from the child node
SearchReturn ==
    /\ Len(stack) > 1
    /\ stack' = SubSeq(stack, 1, Len(stack) - 1)
    /\ repResult' = "none"
    /\ UNCHANGED game

\* the node on top of the stack is tested with IsRepetition
CallIsRepetition ==
    /\ repResult = "none"
    /\ repResult' = IF IsRepetition(stack, game) THEN "true" ELSE "false"
    /\ UNCHANGED <<stack, game>>

(***************************************************************************)
(* History counters: MoveOrderer::UpdateQuietMovesHistory and              *)
(* MoveOrderer::UpdateCapturesHistory.                                     *)
(*                                                                         *)
(* The tables hold thousands of counters that are updated independently of *)
(* each other; the model follows one of them, any counter of any table,    *)
(* through the calls.  A call hits the followed counter once for every     *)
(* listed move that addresses it (one continuation pointer at most is      *)
(* taken to point at the followed table).                                  *)
(***************************************************************************)
MaxNodeDepth == 3           \* bound: node.depth of the updating node
MaxListed == 2              \* bound: numMoves of one update call

\* counterMoveHistory and continuationHistory are both reached through
\* node.continuationHistories and stand under "continuationHistory"
HistoryTables == {"quietMoveHistory", "continuationHistory", "capturesHistory"}

Abs(x) == IF x < 0 THEN -x ELSE x
MinOf(a, b) == IF a < b THEN a ELSE b
MaxOf(a, b) == IF a < b THEN b ELSE a

\* operator / on int32_t: the quotient is truncated toward zero
DivTrunc(a, b) == IF a >= 0 THEN a \div b ELSE -((-a) \div b)

\* static_cast<CounterType>: conversion to int16_t
ToInt16(v) == ((v + 32768) % 65536) - 32768

\* UpdateHistoryCounter (lines 163-172)
UpdateHistoryCounter(c, delta) ==
    ToInt16(c + delta - DivTrunc(c * Abs(delta) + 8192, 16384))

\* line 188
QuietBonus(depth) == MinOf(128 * (depth - 1) + depth * depth, 2000)
\* line 221
CaptureBonus(depth) == MinOf(16 + 32 * depth + depth * depth, 2000)

\* the followed counter after the hits of one call, in list order: a hit by
\* the best move adds the bonus, any other hit subtracts it (lines 193, 228)
RECURSIVE ApplyHits(_, _, _)
ApplyHits(c, hits, bonus) ==
    IF hits = <<>> THEN c
    ELSE ApplyHits(UpdateHistoryCounter(c, IF Head(hits) = "best" THEN bonus ELSE -bonus),
                   Tail(hits), bonus)

\* the hits a call with numMoves listed moves can make on one counter of
\* the table: the listed moves that address it, the best move at most once
\* among them; two quiet moves never share a quietMoveHistory counter
HitLists(table, numMoves) ==
    { h \in UNION { [1..n -> {"best", "other"}] :
                      n \in 0..(IF table = "quietMoveHistory" THEN 1 ELSE numMoves) } :
        \A i, j \in DOMAIN h : h[i] = "best" /\ h[j] = "best" => i = j }

\* MoveOrderer::Clear: every counter is zero
InitHistory ==
    /\ followed \in HistoryTables
    /\ counter = 0
    /\ rootPos = Parked /\ pvArray = Parked /\ pvLengths = Parked /\ outLine = Parked
    /\ param = Parked /\ ds = Parked /\ asp = Parked /\ result = Parked
    /\ timeUp = Parked /\ stop = Parked /\ completed = Parked
    /\ cuckoo = Parked /\ cuckooKeys = Parked /\ count = Parked
    /\ slot = Parked /\ wr = Parked /\ rd = Parked
    /\ pin = Parked /\ picker = Parked /\ yielded = Parked /\ entered = Parked
    /\ lastRet = Parked
    /\ stack = Parked /\ game = Parked /\ repResult = Parked
    /\ nnPlatform = Parked /\ nn = Parked /\ nnFile = Parked /\ nnCall = Parked /\ nnRet = Parked
    /\ node = Parked /\ ttable = Parked
    /\ nodeInfo = Parked /\ pvIndexed = Parked
    /\ ordering = Parked
    /\ aspiration = Parked
    /\ chain = Parked /\ cycle = Parked
    /\ history = Parked /\ lastCall = Parked
    /\ killerMoves = Parked

\* MoveOrderer::UpdateQuietMovesHistory (lines 174-206)
UpdateQuietMovesHistory ==
    \E depth \in 0..MaxNodeDepth, numMoves \in 1..MaxListed :
        IF (numMoves <= 1 /\ depth < 2) \/ followed = "capturesHistory"
        THEN UNCHANGED historyVars
        ELSE \E hits \in HitLists(followed, numMoves) :
                /\ counter' = ApplyHits(counter, hits, QuietBonus(depth))
                /\ UNCHANGED followed

\* MoveOrderer::UpdateCapturesHistory (lines 208-241)
UpdateCapturesHistory ==
    \E nodeDepth \in -1..MaxNodeDepth, numMoves \in 1..MaxListed :
        LET depth == MaxOf(0, nodeDepth)
        IN  IF numMoves <= 1 \/ followed # "capturesHistory"
            THEN UNCHANGED historyVars
            ELSE \E hits \in HitLists(followed, numMoves) :
                    /\ counter' = ApplyHits(counter, hits, CaptureBonus(depth))
                    /\ UNCHANGED followed

(***************************************************************************)
(* The iterative-deepening driver: Search::DoSearch,                       *)
(* Search::AspirationWindowSearch and the root node of Search::NegaMax.    *)
(*                                                                         *)
(* A position is the set of its pseudo-legal moves and, among them, the    *)
(* legal ones; playing a move removes it from both.  The searches below    *)
(* the root are not followed: a child node returns any score of            *)
(* ChildScores.  In SpecSearch the children leave an empty PV behind       *)
(* (pvLengths[1] = 1, as a child at the horizon does); SpecPv covers the   *)
(* PV rows a deeper child leaves.  mPrevPvLines, which only orders the     *)
(* moves (FindPvMove), is not kept: the root moves are searched in any     *)
(* order.                                                                  *)
(***************************************************************************)
NumRootMoves == 2           \* bound: pseudo-legal moves of the root position
MaxDepthParam == 4          \* bound: param.maxDepth
MaxPvPly == 2               \* bound: last index of a PV row

CheckmateValue == 100000
InfValue == 10000000
AspirationWindowSearchStartDepth == 4
AspirationWindowMax == 200
AspirationWindowMin == 20
AspirationWindowStep == 20

\* the scores a child node returns (negated already), inside
\* (-CheckmateValue, CheckmateValue)
ChildScores == {-250, 250}

\* PackedMove: 0 is the invalid packed move
MoveIds == 1..NumRootMoves
PackedAlphabet == 0..NumRootMoves
NoMove == [packed |-> 0, valid |-> FALSE]
MoveOf(id) == [packed |-> id, valid |-> TRUE]
PackedOf(move) == move.packed

\* the positions with k legal moves among the pseudo-legal ones
Positions ==
    { [legal |-> 1..k, pseudo |-> MoveIds, inCheck |-> c] :
        k \in 0..NumRootMoves, c \in BOOLEAN }
GetNumLegalMoves(pos) == Cardinality(pos.legal)
\* Position::MoveFromPacked: the move of this position with these packed
\* bits, the invalid move if there is none
MoveFromPackedAt(pos, pm) == IF pm \in pos.pseudo THEN MoveOf(pm) ELSE NoMove
\* Position::DoMove returns false for a move that is not legal
DoMoveOk(pos, move) == move.packed \in pos.legal
PositionAfter(pos, move) ==
    [pos EXCEPT !.legal = @ \ {move.packed}, !.pseudo = @ \ {move.packed}]

PvIndices == 0..MaxPvPly
EmptyPvRow == [j \in PvIndices |-> 0]

\* (mutant: a node leaves an empty PV length behind)
PvLengthEmpty(depth) == 0
\* NegaMax line 559: a node entered at this depth leaves pvLengths[depth] = depth
PvLengthAtEntry(depth) == depth

\* Search::UpdatePvArray(depth, move), lines 339-348: the new row of the
\* node and its new length
UpdatePvArray(depth, move, row, childRow, childPvLength) ==
    [row |-> [j \in PvIndices |->
                IF j = depth THEN PackedOf(move)
                ELSE IF j >= depth + 1 /\ j < childPvLength THEN childRow[j]
                ELSE row[j]],
     length |-> childPvLength]

\* (mutant: the result of DoMove is not looked at)
PvStepUnchecked(pos, move) == move.valid
\* DoSearch lines 155-156: the reconstruction goes on past this move
PvStepContinues(pos, move) == move.valid /\ DoMoveOk(pos, move)

\* DoSearch lines 149-159
RECURSIVE ReconstructPv(_, _, _, _)
ReconstructPv(pos, row, i, pvLength) ==
    IF i >= pvLength THEN <<>>
    ELSE LET move == MoveFromPackedAt(pos, row[i])
         IN  IF ~PvStepContinues(pos, move) THEN <<>>
             ELSE <<move>> \o ReconstructPv(PositionAfter(pos, move), row, i + 1, pvLength)

\* SearchUtils::GetPvLine, lines 122-145
RECURSIVE GetPvLineFrom(_, _, _, _)
GetPvLineFrom(pos, row, i, limit) ==
    IF i >= limit THEN <<>>
    ELSE LET move == MoveFromPackedAt(pos, row[i])
         IN  IF ~move.valid THEN <<>>
             ELSE IF ~DoMoveOk(pos, move) THEN <<>>
             ELSE <<move>> \o GetPvLineFrom(PositionAfter(pos, move), row, i + 1, limit)

GetPvLine(pos, row, pvLength, maxLength) ==
    IF maxLength > 0 THEN GetPvLineFrom(pos, row, 0, MinOf(maxLength, pvLength)) ELSE <<>>

\* (mutant: no PV line is searched with a filter)
MoveFilterNone(pvIndex, pvMovesSoFar) == <<>>
\* DoSearch line 132: the root-move filter of this PV line
MoveFilter(pvIndex, pvMovesSoFar) == IF pvIndex > 0 THEN pvMovesSoFar ELSE <<>>

\* NegaMax lines 725-737: the generated moves less the filtered ones
RootMoveList(pos, moveFilter) ==
    { MoveOf(id) : id \in pos.pseudo } \ { moveFilter[i] : i \in DOMAIN moveFilter }

\* the orders in which MoveList::PickBestMove can hand out a move list
Orderings(moves) ==
    { o \in [1..Cardinality(moves) -> moves] : \A i, j \in DOMAIN o : o[i] = o[j] => i = j }

\* NegaMax lines 799-908 at the root: the moves of the list in order, st the
\* running [alpha, numLegalMoves, row, length, betaCutoff]
RECURSIVE RootMoveLoop(_, _, _, _, _, _)
RootMoveLoop(pos, order, i, scoreOf, beta, st) ==
    IF i > Len(order) \/ st.betaCutoff THEN st
    ELSE LET move == order[i]
         IN  IF ~DoMoveOk(pos, move)
             THEN RootMoveLoop(pos, order, i + 1, scoreOf, beta, st)
             ELSE LET score == scoreOf[move.packed]
                      pv == UpdatePvArray(0, move, st.row, EmptyPvRow, PvLengthAtEntry(1))
                      improved == score > st.alpha
                  IN  RootMoveLoop(pos, order, i + 1, scoreOf, beta,
                        [alpha |-> IF improved THEN score ELSE st.alpha,
                         numLegalMoves |-> st.numLegalMoves + 1,
                         row |-> IF improved THEN pv.row ELSE st.row,
                         length |-> IF improved THEN pv.length ELSE st.length,
                         betaCutoff |-> score >= beta])

\* Search::NegaMax for the root node (isRootNode, isPvNode): the returned
\* score and what it leaves in pvArray[0], pvLengths[0]
NegaMaxRoot(pos, order, scoreOf, alpha, beta) ==
    LET st == RootMoveLoop(pos, order, 1, scoreOf, beta,
                [alpha |-> alpha, numLegalMoves |-> 0, row |-> EmptyPvRow,
                 length |-> PvLengthAtEntry(0), betaCutoff |-> FALSE])
    IN  [score |-> IF st.numLegalMoves = 0
                   THEN (IF pos.inCheck THEN -CheckmateValue ELSE 0)
                   ELSE st.alpha,
         row |-> st.row, length |-> st.length]

\* AspirationWindowSearch lines 221-234
AspirationStart(depth, previousScore) ==
    LET aspirationWindow ==
            MaxOf(AspirationWindowMin,
                  AspirationWindowMax
                    - (depth - AspirationWindowSearchStartDepth) * AspirationWindowStep)
    IN  IF depth >= AspirationWindowSearchStartDepth
        THEN [alpha |-> MaxOf(previousScore - aspirationWindow, -InfValue),
              beta |-> MinOf(previousScore + aspirationWindow, InfValue),
              aspirationWindow |-> aspirationWindow]
        ELSE [alpha |-> -InfValue, beta |-> InfValue, aspirationWindow |-> aspirationWindow]

\* a PvLine before any search has written it
EmptyPvLine == [score |-> 0, moves |-> <<>>]
NoStop == [depth |-> 0, pvIndex |-> 0, pc |-> "none"]
EmptyPvArray == [d \in 0..1 |-> EmptyPvRow]

InitSearch ==
    /\ rootPos \in Positions
    /\ param \in [numPvLines : 1..NumRootMoves, maxDepth : 0..MaxDepthParam,
                  maxTimeFinite : BOOLEAN]
    /\ ds = [pc |-> "begin", depth |-> 0, pvIndex |-> 0, numPvLines |-> 0,
             pvMovesSoFar |-> <<>>, score |-> 0]
    /\ asp = AspirationStart(0, 0)
    /\ pvArray = EmptyPvArray
    /\ pvLengths = [d \in 0..1 |-> 0]
    /\ result = <<>>
    /\ timeUp = FALSE
    /\ stop = NoStop
    /\ completed = 0
    /\ outLine = Parked
    /\ slot = Parked /\ wr = Parked /\ rd = Parked
    /\ pin = Parked /\ picker = Parked /\ yielded = Parked /\ entered = Parked
    /\ lastRet = Parked
    /\ stack = Parked /\ game = Parked /\ repResult = Parked
    /\ followed = Parked /\ counter = Parked
    /\ cuckoo = Parked /\ cuckooKeys = Parked /\ count = Parked
    /\ nnPlatform = Parked /\ nn = Parked /\ nnFile = Parked /\ nnCall = Parked /\ nnRet = Parked
    /\ node = Parked /\ ttable = Parked
    /\ nodeInfo = Parked /\ pvIndexed = Parked
    /\ ordering = Parked
    /\ aspiration = Parked
    /\ chain = Parked /\ cycle = Parked
    /\ history = Parked /\ lastCall = Parked
    /\ killerMoves = Parked

\* DoSearch lines 92-116: up to the first aspiration search
DoSearchBegin ==
    /\ ds.pc = "begin"
    /\ LET numPvLines == MinOf(param.numPvLines, GetNumLegalMoves(rootPos))
           run == numPvLines > 0 /\ 1 <= param.maxDepth
       IN  /\ result' = [i \in 1..numPvLines |-> EmptyPvLine]
           /\ ds' = [ds EXCEPT !.numPvLines = numPvLines,
                               !.depth = IF numPvLines > 0 THEN 1 ELSE 0,
                               !.pc = IF run THEN "search" ELSE "done"]
           /\ asp' = IF run THEN AspirationStart(1, EmptyPvLine.score) ELSE asp
    /\ UNCHANGED <<rootPos, param, pvArray, pvLengths, timeUp, stop, completed>>

\* one pass of the loop of AspirationWindowSearch, lines 236-272: the root
\* search and the test of its score against the window
RootNegaMax ==
    /\ ds.pc = "search"
    /\ LET moves == RootMoveList(rootPos, MoveFilter(ds.pvIndex, ds.pvMovesSoFar))
       IN  \E order \in Orderings(moves) :
           \E scoreOf \in [{ m.packed : m \in moves } \cap rootPos.legal -> ChildScores] :
              LET out == NegaMaxRoot(rootPos, order, scoreOf, asp.alpha, asp.beta)
              IN  /\ pvArray' = [pvArray EXCEPT ![0] = out.row]
                  /\ pvLengths' = [pvLengths EXCEPT ![0] = out.length, ![1] = PvLengthAtEntry(1)]
                  /\ IF out.score <= asp.alpha \/ out.score >= asp.beta
                     THEN /\ asp' = [alpha |-> asp.alpha - asp.aspirationWindow,
                                     beta |-> asp.beta + asp.aspirationWindow,
                                     aspirationWindow |-> asp.aspirationWindow * 2]
                          /\ UNCHANGED ds
                     ELSE /\ ds' = [ds EXCEPT !.pc = "write", !.score = out.score]
                          /\ UNCHANGED asp
    /\ UNCHANGED <<rootPos, param, result, timeUp, stop, completed>>

\* std::vector::front() of the reconstructed line (line 162); the line is
\* asserted non-empty, the front of an empty vector is any value
FrontOf(moves) ==
    IF moves # <<>> THEN {Head(moves)} ELSE {NoMove} \cup { MoveOf(id) : id \in MoveIds }

\* DoSearch lines 138-167 and the step of the pvIndex loop
WritePvLine ==
    /\ ds.pc = "write"
    /\ LET pvLength == pvLengths[0]
           line == ReconstructPv(rootPos, pvArray[0], 0, pvLength)
           next == ds.pvIndex + 1
       IN  IF pvLength > 0
           THEN /\ result' = [result EXCEPT ![ds.pvIndex + 1] =
                                [score |-> ds.score, moves |-> line]]
                /\ \E front \in FrontOf(line) :
                      ds' = [ds EXCEPT !.pvMovesSoFar = Append(@, front),
                                       !.pvIndex = next,
                                       !.pc = IF next < ds.numPvLines
                                              THEN "search" ELSE "endOfDepth"]
                /\ asp' = IF next < ds.numPvLines
                          THEN AspirationStart(ds.depth, result[next + 1].score)
                          ELSE asp
           ELSE /\ result' = [result EXCEPT ![ds.pvIndex + 1].score = ds.score]
                /\ ds' = [ds EXCEPT !.pc = "endOfDepth"]
                /\ UNCHANGED asp
    /\ UNCHANGED <<rootPos, param, pvArray, pvLengths, timeUp, stop, completed>>

\* DoSearch lines 206-216 and the step of the depth loop (lines 112-114)
EndOfDepth ==
    /\ ds.pc = "endOfDepth"
    /\ completed' = ds.depth
    /\ IF param.maxTimeFinite /\ timeUp
       THEN /\ ds' = [ds EXCEPT !.pc = "done"]
            /\ UNCHANGED asp
       ELSE IF ds.depth + 1 <= param.maxDepth
       THEN /\ ds' = [ds EXCEPT !.depth = @ + 1, !.pvIndex = 0, !.pvMovesSoFar = <<>>,
                                !.pc = "search"]
            /\ asp' = AspirationStart(ds.depth + 1, result[1].score)
       ELSE /\ ds' = [ds EXCEPT !.depth = @ + 1, !.pc = "done"]
            /\ UNCHANGED asp
    /\ UNCHANGED <<rootPos, param, pvArray, pvLengths, result, timeUp, stop>>

\* the clock: GetElapsedTime() passes param.maxTime while DoSearch runs;
\* stop records where DoSearch was at that moment
TimePasses ==
    /\ param.maxTimeFinite /\ ~timeUp
    /\ ds.pc \in {"search", "write", "endOfDepth"}
    /\ timeUp' = TRUE
    /\ stop' = [depth |-> ds.depth, pvIndex |-> ds.pvIndex, pc |-> ds.pc]
    /\ UNCHANGED <<rootPos, param, ds, asp, pvArray, pvLengths, result, completed>>

(***************************************************************************)
(* The PV array on its own: the row a child leaves, Search::UpdatePvArray  *)
(* at the root and the two reconstructions of the line (DoSearch lines     *)
(* 140-163, SearchUtils::GetPvLine).  The child's row holds any packed     *)
(* moves, valid in the position or not.                                    *)
(***************************************************************************)
PvRows == [PvIndices -> PackedAlphabet]
NoLine == [by |-> "none", maxLength |-> 0, moves |-> <<>>]

\* after the memset of AspirationWindowSearch (lines 243-244) and the
\* return of a child of the root
InitPv ==
    /\ rootPos \in Positions
    /\ \E childRow \in { r \in PvRows : r[0] = 0 } :
          pvArray = [d \in 0..1 |-> IF d = 1 THEN childRow ELSE EmptyPvRow]
    /\ \E childPvLength \in PvLengthAtEntry(1)..(MaxPvPly + 1) :
          pvLengths = [d \in 0..1 |-> IF d = 1 THEN childPvLength ELSE PvLengthAtEntry(0)]
    /\ outLine = NoLine
    /\ param = Parked /\ ds = Parked /\ asp = Parked /\ result = Parked
    /\ timeUp = Parked /\ stop = Parked /\ completed = Parked
    /\ slot = Parked /\ wr = Parked /\ rd = Parked
    /\ pin = Parked /\ picker = Parked /\ yielded = Parked /\ entered = Parked
    /\ lastRet = Parked
    /\ stack = Parked /\ game = Parked /\ repResult = Parked
    /\ followed = Parked /\ counter = Parked
    /\ cuckoo = Parked /\ cuckooKeys = Parked /\ count = Parked
    /\ nnPlatform = Parked /\ nn = Parked /\ nnFile = Parked /\ nnCall = Parked /\ nnRet = Parked
    /\ node = Parked /\ ttable = Parked
    /\ nodeInfo = Parked /\ pvIndexed = Parked
    /\ ordering = Parked
    /\ aspiration = Parked
    /\ chain = Parked /\ cycle = Parked
    /\ history = Parked /\ lastCall = Parked
    /\ killerMoves = Parked

\* NegaMax line 893 at the root: a root move becomes the best move
RootUpdatePvArray ==
    /\ outLine.by = "none"
    /\ \E id \in rootPos.legal :
          LET pv == UpdatePvArray(0, MoveOf(id), pvArray[0], pvArray[1], pvLengths[1])
          IN  /\ pvArray' = [pvArray EXCEPT ![0] = pv.row]
              /\ pvLengths' = [pvLengths EXCEPT ![0] = pv.length]
    /\ UNCHANGED <<rootPos, outLine>>

\* DoSearch lines 140-163
DoSearchWritePv ==
    /\ outLine.by = "none"
    /\ pvLengths[0] > 0
    /\ outLine' = [by |-> "DoSearch", maxLength |-> 0,
                   moves |-> ReconstructPv(rootPos, pvArray[0], 0, pvLengths[0])]
    /\ UNCHANGED <<rootPos, pvArray, pvLengths>>

\* SearchUtils::GetPvLine(rootNode, maxLength, outLine)
CallGetPvLine ==
    /\ outLine.by = "none"
    /\ \E maxLength \in 0..(MaxPvPly + 2) :
          outLine' = [by |-> "GetPvLine", maxLength |-> maxLength,
                      moves |-> GetPvLine(rootPos, pvArray[0], pvLengths[0], maxLength)]
    /\ UNCHANGED <<rootPos, pvArray, pvLengths>>

(***************************************************************************)
(* SearchUtils::Init: the cuckoo table of the reversible moves.            *)
(*                                                                         *)
(* A key stands for the Zobrist value it is computed from: the colour, the *)
(* piece and the two squares, in either order (the XOR is symmetric).  The *)
(* table is the set of the keys put into it: the displacement loop moves   *)
(* keys between slots and drops none.                                      *)
(***************************************************************************)
NumSquares == 64
BoardWidth == 8
ExpectedCount == 3668

Colors == <<"White", "Black">>
\* line 31: the pawn is not in the list
CuckooPieces == <<"Knight", "Bishop", "Rook", "Queen", "King">>

FileOf(square) == square % BoardWidth
RankOf(square) == square \div BoardWidth

\* Bitboard::Get<Piece>Attacks(Square(a)) & Square(b).GetBitboard(): the
\* piece on a attacks b on an empty board
Attacks(color, piece, a, b) ==
    LET df == Abs(FileOf(a) - FileOf(b))
        dr == Abs(RankOf(a) - RankOf(b))
    IN  CASE piece = "Pawn"   -> df = 1 /\ RankOf(b) - RankOf(a) = (IF color = "White" THEN 1 ELSE -1)
          [] piece = "Knight" -> (df = 1 /\ dr = 2) \/ (df = 2 /\ dr = 1)
          [] piece = "Bishop" -> df = dr /\ df > 0
          [] piece = "Rook"   -> (df = 0) # (dr = 0)
          [] piece = "Queen"  -> (df = dr /\ df > 0) \/ ((df = 0) # (dr = 0))
          [] piece = "King"   -> MaxOf(df, dr) = 1

\* line 51
CuckooKey(color, piece, squareA, squareB) == <<color, piece, {squareA, squareB}>>

\* (mutant: the inner loop runs over every square)
FirstSquareBZero(squareA) == 0
\* line 35: the first squareB of the inner loop
FirstSquareB(squareA) == squareA + 1

\* lines 24-27
InitCuckoo ==
    /\ cuckoo = [pc |-> "loop", color |-> 1, piece |-> 1, squareA |-> 0]
    /\ cuckooKeys = {}
    /\ count = 0
    /\ rootPos = Parked /\ pvArray = Parked /\ pvLengths = Parked /\ outLine = Parked
    /\ param = Parked /\ ds = Parked /\ asp = Parked /\ result = Parked
    /\ timeUp = Parked /\ stop = Parked /\ completed = Parked
    /\ slot = Parked /\ wr = Parked /\ rd = Parked
    /\ pin = Parked /\ picker = Parked /\ yielded = Parked /\ entered = Parked
    /\ lastRet = Parked
    /\ stack = Parked /\ game = Parked /\ repResult = Parked
    /\ followed = Parked /\ counter = Parked
    /\ nnPlatform = Parked /\ nn = Parked /\ nnFile = Parked /\ nnCall = Parked /\ nnRet = Parked
    /\ node = Parked /\ ttable = Parked
    /\ nodeInfo = Parked /\ pvIndexed = Parked
    /\ ordering = Parked
    /\ aspiration = Parked
    /\ chain = Parked /\ cycle = Parked
    /\ history = Parked /\ lastCall = Parked
    /\ killerMoves = Parked

\* lines 33-63: one pass of the squareA loop, the whole squareB loop in it
InitSquareA ==
    /\ cuckoo.pc = "loop"
    /\ LET color == Colors[cuckoo.color]
           piece == CuckooPieces[cuckoo.piece]
           squareA == cuckoo.squareA
           hits == { squareB \in FirstSquareB(squareA)..(NumSquares - 1) :
                       Attacks(color, piece, squareA, squareB) }
       IN  /\ cuckooKeys' = cuckooKeys \cup
                              { CuckooKey(color, piece, squareA, squareB) : squareB \in hits }
           /\ count' = count + Cardinality(hits)
    /\ cuckoo' =
          IF cuckoo.squareA + 1 < NumSquares THEN [cuckoo EXCEPT !.squareA = @ + 1]
          ELSE IF cuckoo.piece < Len(CuckooPieces)
          THEN [cuckoo EXCEPT !.squareA = 0, !.piece = @ + 1]
          ELSE IF cuckoo.color < Len(Colors)
          THEN [cuckoo EXCEPT !.squareA = 0, !.piece = 1, !.color = @ + 1]
          ELSE [cuckoo EXCEPT !.pc = "done"]

(***************************************************************************)
(* PackedNeuralNetwork::Load and PackedNeuralNetwork::Release.             *)
(*                                                                         *)
(* nn holds the fields of the object (mappedData, mappedSize,              *)
(* weightsBuffer, header, numActiveLayers, the descriptor or the handles)  *)
(* and what the operating system holds for it: the open file, the mapping  *)
(* object (Windows) and the mapped view.  The file is what open, fstat and *)
(* mmap (CreateFile, CreateFileMapping, MapViewOfFile) do with it and the  *)
(* header and size it has.                                                 *)
(***************************************************************************)
MagicNumber == 7
CurrentVersion == 3
MaxInputs == 2
AccumulatorSize == 1
NumVariants == 2
MaxNumLayers == 4
HeaderSize == 40
CachelineSize == 4
OutputSize == 1

Platforms == {"posix", "windows"}
LayerIndices == 0..(MaxNumLayers - 1)
ClearedHeader ==
    [magic |-> 0, version |-> 0,
     layerSizes |-> [i \in LayerIndices |-> 0],
     layerVariants |-> [i \in LayerIndices |-> 0]]

\* the headers a file can start with: every mix of layer sizes and variant
\* counts under the right magic and version, and a well-formed header under
\* a wrong magic or version
LayerHeaders ==
    { [magic |-> MagicNumber, version |-> CurrentVersion, layerSizes |-> s, layerVariants |-> lv] :
        s \in { t \in [LayerIndices -> 0..(2 * AccumulatorSize + 2)] :
                  /\ t[0] \in {0, 1, MaxInputs + 1}
                  /\ t[1] \in {0, 2 * AccumulatorSize, 2 * AccumulatorSize + 1,
                               2 * AccumulatorSize + 2}
                  /\ t[2] \in {0, 1} /\ t[3] = 0 },
        lv \in { t \in [LayerIndices -> 0..(NumVariants + 1)] :
                  /\ t[0] \in {0, NumVariants}
                  /\ t[1] \in {1, NumVariants + 1}
                  /\ t[2] = 1 /\ t[3] = 1 } }
GoodHeader ==
    [magic |-> MagicNumber, version |-> CurrentVersion,
     layerSizes |-> [i \in LayerIndices |-> IF i = 0 THEN 1 ELSE IF i = 1 THEN 2 * AccumulatorSize ELSE 0],
     layerVariants |-> [i \in LayerIndices |-> IF i < 2 THEN 1 ELSE 0]]
FileHeaders ==
    LayerHeaders \cup { [GoodHeader EXCEPT !.magic = MagicNumber + 1],
                        [GoodHeader EXCEPT !.version = CurrentVersion + 1],
                        [GoodHeader EXCEPT !.layerSizes[2] = 1, !.layerSizes[3] = 1,
                                           !.layerVariants[2] = NumVariants,
                                           !.layerVariants[3] = 0],
                        [GoodHeader EXCEPT !.layerSizes[2] = 1,
                                           !.layerVariants[2] = NumVariants + 1] }

\* lines 875-891: the layers in use and whether their variant counts pass;
\* a variant count of 0 is read as 1
RECURSIVE CountLayers(_, _)
CountLayers(h, i) ==
    IF i >= MaxNumLayers \/ h.layerSizes[i] = 0 THEN [numActiveLayers |-> i, ok |-> TRUE]
    ELSE LET variants == IF h.layerVariants[i] = 0 THEN 1 ELSE h.layerVariants[i]
         IN  IF variants # 1 /\ variants # NumVariants
             THEN [numActiveLayers |-> i, ok |-> FALSE]
             ELSE CountLayers(h, i + 1)

\* line 881: the header with the variant counts of the layers in use read
FixVariants(h, n) ==
    [h EXCEPT !.layerVariants =
        [i \in LayerIndices |-> IF i < n /\ h.layerVariants[i] = 0 THEN 1 ELSE h.layerVariants[i]]]

\* RoundUp<uint32_t, CACHELINE_SIZE>
RoundUp(x) == ((x + CachelineSize - 1) \div CachelineSize) * CachelineSize

\* InitLayerDataSizes (lines 632-656), every weight and bias one byte wide:
\* the first layer, then the hidden layers, then the last layer over them
InitLayerDataSizes(h, n) ==
    [i \in LayerIndices |->
        IF i = n - 1
        THEN h.layerVariants[i] * RoundUp(h.layerSizes[i] * OutputSize + OutputSize)
        ELSE IF i = 0
        THEN h.layerVariants[0] * RoundUp(h.layerSizes[0] * (h.layerSizes[1] \div 2)
                                          + (h.layerSizes[1] \div 2))
        ELSE IF i + 1 < n
        THEN h.layerVariants[i] * RoundUp(h.layerSizes[i] * h.layerSizes[i + 1]
                                          + h.layerSizes[i + 1])
        ELSE 0]

\* GetWeightsBufferSize (lines 591-594)
GetWeightsBufferSize(h, n) ==
    LET layerDataSizes == InitLayerDataSizes(h, n)
    IN  layerDataSizes[0] + layerDataSizes[1] + layerDataSizes[2] + layerDataSizes[3]

\* the files Load can be given: the system call that fails on it, if any
\* ("open", "fstat" or "CreateFileMapping", "mmap" or "MapViewOfFile"), its size
\* and its header
FileFaults == {"none", "open", "size", "map"}
Files ==
    { [fault |-> "none", size |-> sz, header |-> h] :
        sz \in {HeaderSize + 2 * CachelineSize, HeaderSize + 8 * CachelineSize},
        h \in FileHeaders }
    \cup { [fault |-> f, size |-> HeaderSize + 8 * CachelineSize, header |-> GoodHeader] :
             f \in FileFaults \ {"none"} }

\* the object before Load: never loaded, holding a mapped file, or holding
\* a buffer of its own (Resize)
ReleasedNetwork ==
    [mappedData |-> "null", mappedSize |-> 0, weightsBuffer |-> "null",
     header |-> ClearedHeader, numActiveLayers |-> 0, fileOpen |-> FALSE,
     osFile |-> FALSE, osMapObject |-> FALSE, osView |-> FALSE, osHeap |-> FALSE]

\* PackedNeuralNetwork::ReleaseFileMapping (lines 752-780).  On Windows the
\* handles are closed only when they are INVALID_HANDLE_VALUE, that is never
\* when they are open, and the view is not unmapped; on the other platforms
\* munmap and close are called
ReleaseFileMapping(platform, n) ==
    IF platform = "windows"
    THEN [n EXCEPT !.mappedData = "null", !.mappedSize = 0]
    ELSE [n EXCEPT !.osView = FALSE,
                   !.osFile = IF n.fileOpen THEN FALSE ELSE @,
                   !.fileOpen = FALSE,
                   !.mappedData = "null", !.mappedSize = 0]

\* PackedNeuralNetwork::Release (lines 574-589)
Release(platform, n) ==
    LET n1 == IF n.mappedData # "null"
              THEN [ReleaseFileMapping(platform, n) EXCEPT !.weightsBuffer = "null"]
              ELSE n
        n2 == IF n1.weightsBuffer # "null"
              THEN [n1 EXCEPT !.weightsBuffer = "null", !.osHeap = FALSE]
              ELSE n1
    IN  [n2 EXCEPT !.header = ClearedHeader]

\* Load lines 784-848: Release, then the file is opened and mapped; the
\* fields and the system's state after it and whether it went to onError
MapFile(platform, n0, file) ==
    LET n == Release(platform, n0)
    IN  IF file.fault = "open" THEN [nn |-> n, failed |-> TRUE]
        ELSE LET opened == [n EXCEPT !.fileOpen = TRUE, !.osFile = TRUE]
             IN  IF platform = "windows"
                 THEN \* CreateFileMapping returns NULL when it fails, which is not
                      \* INVALID_HANDLE_VALUE: line 810 does not see it, and
                      \* MapViewOfFile then fails on the null handle
                      LET sized == [opened EXCEPT !.osMapObject = (file.fault # "size"),
                                                  !.mappedSize = file.size]
                      IN  IF file.fault = "none"
                          THEN [nn |-> [sized EXCEPT !.mappedData = "view", !.osView = TRUE],
                                failed |-> FALSE]
                          ELSE [nn |-> sized, failed |-> TRUE]
                 ELSE IF file.fault = "size" THEN [nn |-> opened, failed |-> TRUE]
                 ELSE LET sized == [opened EXCEPT !.mappedSize = file.size]
                      IN  IF file.fault = "none"
                          THEN [nn |-> [sized EXCEPT !.mappedData = "view", !.osView = TRUE],
                                failed |-> FALSE]
                          ELSE [nn |-> [sized EXCEPT !.mappedData = "MAP_FAILED"],
                                failed |-> TRUE]

\* Load lines 850-908: the header is copied and checked
HeaderAccepted(h) ==
    /\ h.magic = MagicNumber
    /\ h.version = CurrentVersion
    /\ ~(h.layerSizes[0] = 0 \/ h.layerSizes[0] > MaxInputs)
    /\ ~(h.layerSizes[1] = 0 \/ h.layerSizes[1] \div 2 # AccumulatorSize)
    /\ CountLayers(h, 0).ok
    /\ ~(CountLayers(h, 0).numActiveLayers < 2)

\* the fields when a check of the header fails: the header is kept up to
\* the check that failed (Release clears it)
CheckHeader(n, file) ==
    LET h == file.header
        layers == CountLayers(h, 0)
        fixed == FixVariants(h, layers.numActiveLayers)
    IN  IF ~HeaderAccepted(h)
        THEN [nn |-> [n EXCEPT !.header = fixed], failed |-> TRUE]
        ELSE LET loaded == [n EXCEPT !.header = fixed,
                                     !.numActiveLayers = layers.numActiveLayers,
                                     !.weightsBuffer = "view"]
             IN  [nn |-> loaded,
                  failed |-> HeaderSize + GetWeightsBufferSize(fixed, layers.numActiveLayers)
                               > n.mappedSize]

\* PackedNeuralNetwork::Load (lines 782-915): what the object and the system
\* hold when it returns, and the value returned
Load(platform, n0, file) ==
    LET mapped == MapFile(platform, n0, file)
        checked == CheckHeader(mapped.nn, file)
    IN  IF mapped.failed THEN [nn |-> Release(platform, mapped.nn), ret |-> FALSE]
        ELSE IF checked.failed THEN [nn |-> Release(platform, checked.nn), ret |-> FALSE]
        ELSE [nn |-> checked.nn, ret |-> TRUE]

\* the layer sizes Resize is called with
ResizeLayerSizes == { <<1>>, <<1, 2 * AccumulatorSize>>, <<MaxInputs, 2 * AccumulatorSize, 1>> }

\* PackedNeuralNetwork::Resize (lines 596-631), no variants given
Resize(platform, n0, layerSizes, allocated) ==
    LET n == Release(platform, n0)
        len == Len(layerSizes)
        sized == [n EXCEPT !.header =
                     [magic |-> MagicNumber, version |-> CurrentVersion,
                      layerSizes |-> [i \in LayerIndices |->
                                         IF i < len THEN layerSizes[i + 1] ELSE 0],
                      layerVariants |-> [i \in LayerIndices |-> IF i < len THEN 1 ELSE 0]],
                   !.numActiveLayers = len]
    IN  IF len < 2 \/ len > MaxNumLayers THEN [nn |-> n, ret |-> FALSE]
        ELSE IF ~allocated THEN [nn |-> Release(platform, sized), ret |-> FALSE]
        ELSE [nn |-> [sized EXCEPT !.weightsBuffer = "heap", !.osHeap = TRUE], ret |-> TRUE]

NoFile == [fault |-> "open", size |-> 0, header |-> ClearedHeader]

InitNN ==
    /\ nnPlatform \in Platforms
    /\ nn = ReleasedNetwork
    /\ nnFile = NoFile
    /\ nnCall = "none"
    /\ nnRet = FALSE
    /\ slot = Parked /\ wr = Parked /\ rd = Parked /\ pin = Parked
    /\ picker = Parked /\ yielded = Parked /\ entered = Parked /\ lastRet = Parked
    /\ stack = Parked /\ game = Parked /\ repResult = Parked
    /\ followed = Parked /\ counter = Parked
    /\ rootPos = Parked /\ param = Parked /\ ds = Parked /\ asp = Parked
    /\ pvArray = Parked /\ pvLengths = Parked /\ result = Parked
    /\ timeUp = Parked /\ stop = Parked /\ completed = Parked /\ outLine = Parked
    /\ cuckoo = Parked /\ cuckooKeys = Parked /\ count = Parked
    /\ node = Parked /\ ttable = Parked
    /\ nodeInfo = Parked /\ pvIndexed = Parked
    /\ ordering = Parked
    /\ aspiration = Parked
    /\ chain = Parked /\ cycle = Parked
    /\ history = Parked /\ lastCall = Parked
    /\ killerMoves = Parked

CallLoad ==
    \E file \in Files :
        LET r == Load(nnPlatform, nn, file)
        IN  /\ nn' = r.nn
            /\ nnRet' = r.ret
            /\ nnFile' = file
            /\ nnCall' = "Load"
            /\ UNCHANGED nnPlatform

CallResize ==
    \E layerSizes \in ResizeLayerSizes, allocated \in BOOLEAN :
        LET r == Resize(nnPlatform, nn, layerSizes, allocated)
        IN  /\ nn' = r.nn
            /\ nnRet' = r.ret
            /\ nnFile' = NoFile
            /\ nnCall' = "Resize"
            /\ UNCHANGED nnPlatform

CallRelease ==
    /\ nn' = Release(nnPlatform, nn)
    /\ nnRet' = FALSE
    /\ nnFile' = NoFile
    /\ nnCall' = "Release"
    /\ UNCHANGED nnPlatform

(***************************************************************************)
(* Search::NegaMax and Search::QuiescenceNegaMax, followed along one path  *)
(* of the search tree.                                                     *)
(*                                                                         *)
(* node is the call being executed: the NodeInfo it was given, what the    *)
(* position answers (in check, draw, static evaluation, legal moves, the   *)
(* entry the transposition table holds for it), the locals of the function *)
(* and the place it has reached.  A child call is either followed (the     *)
(* child becomes node) or returns some score a search of that child can    *)
(* return.  Depths are counted in plies (maxDepthFractional >>             *)
(* MaxDepthShift; every extension and reduction is a whole ply).           *)
(***************************************************************************)
NullMovePrunningStartDepth == 3
NullMovePrunningDepthReduction == 3
LateMoveReductionStartDepth == 3
LateMoveReductionRate == 8
LateMovePrunningStartDepth == 3
BetaPruningDepth == 6
BetaMarginMultiplier == 80
BetaMarginBias == 30
AlphaPruningDepth == 4
AlphaMarginMultiplier == 150
AlphaMarginBias == 1000
InvalidValue == 2147483647

NodeMaxDepth == 9           \* bound: param.depth of AspirationWindowSearch
MaxPathHeight == 3          \* bound: the height down to which calls are followed
MaxNodeMoves == 2           \* bound: legal moves of a position that are searched
MaxRetries == 1             \* bound: widenings of the aspiration window

\* the depths AspirationWindowSearch is followed at
RootDepths == {1, 3, NodeMaxDepth}

\* static evaluations (from the side to move) and scores of earlier depths
Evals == {-300, 300}

FlagExact == "Flag_Exact"
FlagLowerBound == "Flag_LowerBound"
FlagUpperBound == "Flag_UpperBound"
NoEntry == [flag |-> "none", score |-> 0, depth |-> 0, height |-> 0]

\* the score of a side that is mated at height h, and of the side mating
MatedAt(h) == -CheckmateValue + h
MatingAt(h) == CheckmateValue - h

\* the entries Write (line 938) can have left for a position: the flag, the
\* alpha and the inversedDepth of a node that finished its move loop (and the
\* height of that node, which the entry does not hold).  An entry of depth
\* NodeMaxDepth is deep enough for every node, one of depth 0 only at the
\* horizon
WrittenEntries ==
    { [flag |-> FlagExact, score |-> 300, depth |-> NodeMaxDepth, height |-> 1],
      [flag |-> FlagLowerBound, score |-> 300, depth |-> NodeMaxDepth, height |-> 1],
      [flag |-> FlagUpperBound, score |-> -300, depth |-> NodeMaxDepth, height |-> 1],
      [flag |-> FlagExact, score |-> 0, depth |-> 0, height |-> 1] }

\* the legal moves of a position, in the order PickBestMove hands them out:
\* TRUE for a quiet move, FALSE for a capture or promotion
MoveLists == {<<>>, <<FALSE>>, <<FALSE, TRUE>>, <<TRUE, TRUE>>}

\* what a position answers to the calls NegaMax makes on it: a drawn
\* position, positions with pieces on the board, and pawn endings.  A position
\* without a legal move has no entry: NegaMax returns before it writes one
\* (lines 910-920)
NodePositions ==
    { [isInCheck |-> FALSE, isDraw |-> TRUE, staticEval |-> 0, nonPawnMaterial |-> TRUE,
       quiet |-> <<TRUE>>, pvMove |-> 0, tracked |-> FALSE, ttEntry |-> NoEntry] }
    \cup
    { p \in [isInCheck : BOOLEAN, isDraw : {FALSE}, staticEval : Evals,
             nonPawnMaterial : {TRUE}, quiet : MoveLists, pvMove : 0..MaxNodeMoves,
             tracked : {FALSE}, ttEntry : WrittenEntries \cup {NoEntry}] :
        /\ p.pvMove <= Len(p.quiet)
        /\ p.quiet = <<>> => p.ttEntry = NoEntry }
    \cup
    { [isInCheck |-> FALSE, isDraw |-> FALSE, staticEval |-> e, nonPawnMaterial |-> FALSE,
       quiet |-> <<TRUE, TRUE>>, pvMove |-> 0, tracked |-> FALSE, ttEntry |-> NoEntry] :
        e \in Evals }

\* the positions followed where the table is: one position whose entry is
\* kept in ttable, and positions around it whose entries are not looked at
TablePositions ==
    { [isInCheck |-> FALSE, isDraw |-> FALSE, staticEval |-> e, nonPawnMaterial |-> TRUE,
       quiet |-> q, pvMove |-> 0, tracked |-> tr, ttEntry |-> NoEntry] :
        e \in {300}, q \in {<<FALSE>>}, tr \in BOOLEAN }

\* NodeInfo::MaxDepth() - node.depth in uint32_t (line 579): below zero it
\* wraps to a value above every depth (2^32 + MaxDepth - depth in the code)
InversedDepth(n) ==
    IF n.maxDepth >= n.depth THEN n.maxDepth - n.depth
    ELSE 2147483647 + (n.maxDepth - n.depth)

\* AspirationWindowSearch lines 262-268, applied k times to the first window
RECURSIVE WidenedWindow(_, _)
WidenedWindow(w, k) ==
    IF k = 0 THEN w
    ELSE WidenedWindow([alpha |-> w.alpha - w.aspirationWindow,
                        beta |-> w.beta + w.aspirationWindow,
                        aspirationWindow |-> w.aspirationWindow * 2], k - 1)

NoCall == [kind |-> "none", alpha |-> 0, beta |-> 0, depth |-> 0, maxDepth |-> 0,
           isPvNode |-> FALSE, isNullMove |-> FALSE, window |-> "none"]
NoneAccepted == [call |-> NoCall, alpha |-> 0, beta |-> 0, score |-> 0, numLegalMoves |-> 0,
                 reduction |-> 0]

\* a NodeInfo as NegaMax or QuiescenceNegaMax receives it, on position p, and
\* the locals of the function at its entry
EnterNode(call, parentIsNullMove, p) ==
    [kind |-> call.kind, pc |-> "enter",
     depth |-> call.depth, maxDepth |-> call.maxDepth,
     alpha |-> call.alpha, beta |-> call.beta,
     isPvNode |-> call.isPvNode, isNullMove |-> call.isNullMove,
     parentIsNullMove |-> parentIsNullMove,
     position |-> p,
     a |-> call.alpha, b |-> call.beta, ttScore |-> InvalidValue, ttMoveValid |-> FALSE,
     probed |-> NoEntry,
     move |-> 0, numLegalMoves |-> 0, numReducedMoves |-> 0, reduction |-> 0,
     betaCutoff |-> FALSE, improved |-> FALSE,
     call |-> NoCall, nullMovePlayed |-> FALSE,
     ret |-> 0, written |-> NoEntry, accepted |-> NoneAccepted]

\* a child call: the NodeInfo fields the caller sets and which call it is
MakeCall(kind, n, alpha, beta, maxDepth, isPvNode, isNullMove, window) ==
    [kind |-> kind, alpha |-> alpha, beta |-> beta, depth |-> n.depth + 1,
     maxDepth |-> maxDepth, isPvNode |-> isPvNode, isNullMove |-> isNullMove,
     window |-> window]

Return(n, value) == [n EXCEPT !.pc = "returned", !.ret = value, !.call = NoCall]

\* QuiescenceNegaMax, lines 482-524: the next move of the loop is searched,
\* or the loop has ended.  Without check only tactical moves are generated
RECURSIVE QuiescenceNextMove(_)
QuiescenceNextMove(n) ==
    LET i == n.move + 1
    IN  IF i > Len(n.position.quiet) THEN Return(n, n.a)
        ELSE IF ~n.position.isInCheck /\ n.position.quiet[i]
        THEN QuiescenceNextMove([n EXCEPT !.move = i])
        ELSE [n EXCEPT !.move = i, !.numLegalMoves = @ + 1, !.pc = "quiescence",
                       !.call = MakeCall("Quiescence", n, -n.b, -n.a, 0, FALSE, FALSE,
                                         "quiescence")]

\* QuiescenceNegaMax, lines 432-480
QuiescenceBegin(n0) ==
    LET n == [n0 EXCEPT !.kind = "Quiescence"]
    IN  IF n.position.isDraw THEN Return(n, 0)
        ELSE IF n.position.staticEval >= n.beta THEN Return(n, n.beta)
        ELSE QuiescenceNextMove([n EXCEPT !.a = MaxOf(n.position.staticEval, n.alpha),
                                          !.b = n.beta, !.move = 0,
                                          !.numLegalMoves = 0])

\* QuiescenceNegaMax, lines 498-514, the child returned value
QuiescenceChildReturned(n, value) ==
    LET score == -value
        n1 == IF score > n.a THEN [n EXCEPT !.a = score] ELSE n
    IN  IF score >= n.b THEN Return(n1, n.b) ELSE QuiescenceNextMove(n1)

\* Search::PruneByMateDistance (lines 528-551)
PruneByMateDistance(depth, alpha, beta) ==
    LET matingValue == CheckmateValue - depth
        beta1 == IF matingValue < beta THEN matingValue ELSE beta
        matedValue == -CheckmateValue + depth
    IN  IF matingValue < beta /\ alpha >= matingValue THEN matingValue
        ELSE IF matedValue > alpha /\ beta1 <= matedValue THEN matedValue
        ELSE 0

\* NegaMax, lines 910-943: after the move loop
FinishNode(n) ==
    IF n.numLegalMoves = 0
    THEN Return(n, IF n.position.isInCheck THEN -CheckmateValue + n.depth ELSE 0)
    ELSE LET flag == IF n.a <= n.alpha THEN FlagUpperBound
                     ELSE IF n.betaCutoff THEN FlagLowerBound
                     ELSE FlagExact
         IN  [Return(n, n.a) EXCEPT
                 !.written = [flag |-> flag, score |-> n.a,
                              depth |-> InversedDepth(n), height |-> n.depth]]

\* line 843: std::max<int32_t>(1, numReducedMoves / LateMoveReductionRate)
LateMoveReduction(n, i) ==
    IF /\ n.position.quiet[i] /\ ~n.position.isInCheck
       /\ n.numLegalMoves + 1 > 1
       /\ InversedDepth(n) >= LateMoveReductionStartDepth
    THEN MaxOf(1, n.numReducedMoves \div LateMoveReductionRate)
    ELSE 0

\* NegaMax, lines 799-868: the next move of the loop gets its first search,
\* or (Late Move Prunning) is passed over, or the loop has ended
RECURSIVE NextMove(_)
NextMove(n) ==
    LET i == n.move + 1
        extension == IF n.position.isInCheck THEN 1 ELSE 0
        childMaxDepth == n.maxDepth + extension
        reduction == LateMoveReduction(n, i)
        n1 == [n EXCEPT !.move = i, !.numLegalMoves = @ + 1,
                        !.numReducedMoves = IF reduction > 0 THEN @ + 1 ELSE @,
                        !.reduction = reduction]
        isPvNode == n.position.pvMove = i
    IN  IF i > Len(n.position.quiet) THEN FinishNode(n)
        ELSE IF /\ reduction > 0
                /\ InversedDepth(n) >= LateMovePrunningStartDepth
                /\ reduction > childMaxDepth
        THEN NextMove(n1)
        ELSE IF n1.numLegalMoves = 1
        THEN [n1 EXCEPT !.pc = "first",
                        !.call = MakeCall("NegaMax", n, -n.b, -n.a, childMaxDepth - reduction,
                                          isPvNode, FALSE, "full")]
        ELSE [n1 EXCEPT !.pc = "probe",
                        !.call = MakeCall("NegaMax", n, -n.a - 1, -n.a, childMaxDepth - reduction,
                                          isPvNode, FALSE, "zero")]

\* a null move test that looks at the node alone
DoNullMoveNodeOnly(n) == ~n.isNullMove

\* lines 679-684: no null move if this node or its parent was reached by one
DoNullMoveAllowed(n) == ~n.isNullMove /\ ~n.parentIsNullMove

\* line 677, with the alpha, beta, ttScore and ttMove of the node
NullMoveCondition(n) ==
    /\ ~n.isPvNode /\ ~n.position.isInCheck
    /\ InversedDepth(n) >= NullMovePrunningStartDepth
    /\ n.ttScore >= n.b
    /\ ~n.ttMoveValid

\* lines 676-709 and on: the null move is played, or the move loop begins
NullMoveOrLoop(n) ==
    IF NullMoveCondition(n) /\ DoNullMoveAllowed(n)
    THEN [n EXCEPT !.pc = "null", !.nullMovePlayed = TRUE,
                   !.call = MakeCall("NegaMax", n, -n.b, -n.b + 1,
                                     MaxOf(0, n.maxDepth - NullMovePrunningDepthReduction),
                                     FALSE, TRUE, "null")]
    ELSE NextMove(n)

\* lines 650-674: futility pruning
FutilityOrOn(n) ==
    LET inversedDepth == InversedDepth(n)
        staticEvaluation == IF n.ttScore = InvalidValue THEN n.position.staticEval
                            ELSE n.ttScore
        alphaMargin == AlphaMarginBias + AlphaMarginMultiplier * inversedDepth
        betaMargin == BetaMarginBias + BetaMarginMultiplier * inversedDepth
    IN  IF n.isPvNode \/ n.position.isInCheck THEN NullMoveOrLoop(n)
        ELSE IF inversedDepth <= AlphaPruningDepth /\ staticEvaluation + alphaMargin <= n.a
        THEN Return(n, staticEvaluation + alphaMargin)
        ELSE IF inversedDepth <= BetaPruningDepth /\ staticEvaluation - betaMargin >= n.b
        THEN Return(n, staticEvaluation - betaMargin)
        ELSE NullMoveOrLoop(n)

\* lines 630-648: mate distance pruning, then the horizon
MateDistanceOrOn(n) ==
    LET mateDistanceScore == PruneByMateDistance(n.depth, n.a, n.b)
    IN  IF n.depth # 0 /\ mateDistanceScore # 0 THEN Return(n, mateDistanceScore)
        ELSE IF n.depth >= n.maxDepth THEN QuiescenceBegin(n)
        ELSE FutilityOrOn(n)

\* a test of the tightened window that lets an empty window through
WindowClosedStrict(alpha, beta) == alpha > beta

\* line 617
WindowClosed(alpha, beta) == alpha >= beta

\* lines 585-628: the transposition table lookup, entry being what Read found
ProbeOrOn(n, entry) ==
    IF entry = NoEntry THEN MateDistanceOrOn(n)
    ELSE IF entry.depth >= InversedDepth(n) /\ ~n.isPvNode
    THEN LET alpha == IF entry.flag = FlagLowerBound THEN MaxOf(n.a, entry.score) ELSE n.a
             beta == IF entry.flag = FlagUpperBound THEN MinOf(n.b, entry.score) ELSE n.b
             n1 == [n EXCEPT !.a = alpha, !.b = beta, !.ttMoveValid = TRUE,
                             !.ttScore = entry.score, !.probed = entry]
         IN  IF entry.flag = FlagExact THEN Return(n1, entry.score)
             ELSE IF WindowClosed(alpha, beta) THEN Return(n1, alpha)
             ELSE MateDistanceOrOn(n1)
    ELSE MateDistanceOrOn([n EXCEPT !.ttMoveValid = TRUE])

\* NegaMax from its entry (lines 553-628) to its first child call or its return
NegaMaxBegin(n, entry) ==
    IF n.depth # 0 /\ n.position.isDraw THEN Return(n, 0)
    ELSE ProbeOrOn(n, entry)

\* a move loop that never repeats a reduced search
RedoNever(n, score) == FALSE

\* line 880
RedoAtFullDepth(n, score) == n.reduction > 0 /\ score > n.a

\* lines 888-907: the score of the move is taken
AcceptScore(n, score) ==
    LET n1 == IF score > n.a
              THEN [n EXCEPT !.a = score, !.improved = TRUE,
                             !.accepted = [call |-> n.call, alpha |-> n.a, beta |-> n.b,
                                           score |-> score,
                                           numLegalMoves |-> n.numLegalMoves,
                                           reduction |-> n.reduction]]
              ELSE n
    IN  IF score >= n.b THEN FinishNode([n1 EXCEPT !.betaCutoff = TRUE])
        ELSE NextMove(n1)

\* lines 879-886: the search is repeated at full depth with the full window
RedoOrAccept(n, score) ==
    LET extension == IF n.position.isInCheck THEN 1 ELSE 0
    IN  IF RedoAtFullDepth(n, score)
        THEN [n EXCEPT !.pc = "redo",
                       !.call = MakeCall("NegaMax", n, -n.b, -n.a, n.maxDepth + extension,
                                         n.call.isPvNode, FALSE, "full")]
        ELSE AcceptScore(n, score)

\* NegaMax, lines 702-707 and 862-907: the child call returned value
ChildReturned(n, value) ==
    LET score == -value
    IN  CASE n.pc = "null" ->
               IF score >= n.b THEN Return(n, n.b) ELSE NextMove([n EXCEPT !.call = NoCall])
          [] n.pc = "first" -> RedoOrAccept(n, score)
          [] n.pc = "probe" ->
               IF score > n.a /\ score < n.b
               THEN [n EXCEPT !.pc = "research",
                              !.call = [n.call EXCEPT !.alpha = -n.b, !.beta = -n.a,
                                                      !.window = "full"]]
               ELSE RedoOrAccept(n, score)
          [] n.pc = "research" -> RedoOrAccept(n, score)
          [] n.pc = "redo" -> AcceptScore(n, score)
          [] n.pc = "quiescence" -> QuiescenceChildReturned(n, value)

\* the scores a search of the child called can return: an evaluation or a
\* bound of its window and, where mates are followed, a mate at or below its
\* height
ReturnValues(call, mates) ==
    Evals \cup {call.alpha, call.beta}
          \cup (IF mates THEN {MatedAt(call.depth), MatingAt(call.depth + 1)} ELSE {})

\* the root call of AspirationWindowSearch (lines 246-258) after retries
\* widenings of the window
RootCall(depth, previousScore, retries) ==
    LET w == WidenedWindow(AspirationStart(depth, previousScore), retries)
    IN  [kind |-> "NegaMax", alpha |-> w.alpha, beta |-> w.beta, depth |-> 0,
         maxDepth |-> depth, isPvNode |-> TRUE, isNullMove |-> FALSE, window |-> "root"]

\* the function called runs from its entry to its first child call or return
BeginNode(n, table) ==
    IF n.kind = "Quiescence" THEN QuiescenceBegin(n)
    ELSE NegaMaxBegin(n, IF n.position.tracked THEN table ELSE n.position.ttEntry)

\* mTranspositionTable.Write (line 938), for the position that is followed
TableAfter(n, table) ==
    IF n.pc = "returned" /\ n.written # NoEntry /\ n.position.tracked THEN n.written
    ELSE table

\* the position of a node whose function has not begun
NoPosition ==
    [isInCheck |-> FALSE, isDraw |-> FALSE, staticEval |-> 0, nonPawnMaterial |-> FALSE,
     quiet |-> <<>>, pvMove |-> 0, tracked |-> FALSE, ttEntry |-> NoEntry]

IdleNode == [EnterNode(NoCall, FALSE, NoPosition) EXCEPT !.pc = "idle"]

InitNode ==
    /\ node = IdleNode
    /\ ttable = NoEntry
    /\ slot = Parked /\ wr = Parked /\ rd = Parked /\ pin = Parked
    /\ picker = Parked /\ yielded = Parked /\ entered = Parked /\ lastRet = Parked
    /\ stack = Parked /\ game = Parked /\ repResult = Parked
    /\ followed = Parked /\ counter = Parked
    /\ rootPos = Parked /\ param = Parked /\ ds = Parked /\ asp = Parked
    /\ pvArray = Parked /\ pvLengths = Parked /\ result = Parked
    /\ timeUp = Parked /\ stop = Parked /\ completed = Parked /\ outLine = Parked
    /\ cuckoo = Parked /\ cuckooKeys = Parked /\ count = Parked
    /\ nnPlatform = Parked /\ nn = Parked /\ nnFile = Parked /\ nnCall = Parked /\ nnRet = Parked
    /\ nodeInfo = Parked /\ pvIndexed = Parked
    /\ ordering = Parked
    /\ aspiration = Parked
    /\ chain = Parked /\ cycle = Parked
    /\ history = Parked /\ lastCall = Parked
    /\ killerMoves = Parked

\* AspirationWindowSearch calls NegaMax on the root (line 258); the window
\* has been widened only where a search can end outside it
AspirationWindowSearch ==
    /\ node.pc = "idle"
    /\ \E depth \in RootDepths, previousScore \in Evals, retries \in 0..MaxRetries :
        /\ retries > 0 => depth >= AspirationWindowSearchStartDepth
        /\ node' = EnterNode(RootCall(depth, previousScore, retries), FALSE, NoPosition)
    /\ UNCHANGED ttable

\* the child call that is outstanding is followed: the child becomes node
Descend ==
    /\ node.call # NoCall
    /\ node.call.depth <= MaxPathHeight
    /\ node' = EnterNode(node.call, node.isNullMove, NoPosition)
    /\ UNCHANGED ttable

\* the function called runs on its position, from its entry to its first
\* child call or its return
NodeBegins(positions) ==
    /\ node.pc = "enter"
    /\ \E p \in positions :
        /\ ~node.isPvNode => p.pvMove = 0
        /\ node.isPvNode => p.ttEntry = NoEntry
        /\ p.tracked => p.ttEntry = NoEntry
        /\ LET n == BeginNode([node EXCEPT !.position = p], ttable)
           IN  node' = n /\ ttable' = TableAfter(n, ttable)

\* the child call that is outstanding returns
ChildReturns(mates) ==
    /\ node.call # NoCall
    /\ \E value \in ReturnValues(node.call, mates) :
        LET n == IF node.kind = "Quiescence" THEN QuiescenceChildReturned(node, value)
                 ELSE ChildReturned(node, value)
        IN  node' = n /\ ttable' = TableAfter(n, ttable)

\* the search is over (or is followed no further); the table is kept
SearchEnds ==
    /\ node.pc = "returned"
    /\ node' = IdleNode
    /\ UNCHANGED ttable

(***************************************************************************)
(* Specifications: one per component; the other components stay idle.      *)
(***************************************************************************)
notTT == <<pickerVars, repVars, historyVars, searchVars, pvVars, lineVars, cuckooVars, nnVars, nodeVars, heightVars, orderVars, aspirationVars, cycleVars, ordererVars, killerVars>>
notPicker == <<ttVars, repVars, historyVars, searchVars, pvVars, lineVars, cuckooVars, nnVars, nodeVars, heightVars, orderVars, aspirationVars, cycleVars, ordererVars, killerVars>>
notRep == <<ttVars, pickerVars, historyVars, searchVars, pvVars, lineVars, cuckooVars, nnVars, nodeVars, heightVars, orderVars, aspirationVars, cycleVars, ordererVars, killerVars>>
notHistory == <<ttVars, pickerVars, repVars, searchVars, pvVars, lineVars, cuckooVars, nnVars, nodeVars, heightVars, orderVars, aspirationVars, cycleVars, ordererVars, killerVars>>
notSearch == <<ttVars, pickerVars, repVars, historyVars, lineVars, cuckooVars, nnVars, nodeVars, heightVars, orderVars, aspirationVars, cycleVars, ordererVars, killerVars>>
notPv == <<ttVars, pickerVars, repVars, historyVars, searchVars, cuckooVars, nnVars, nodeVars, heightVars, orderVars, aspirationVars, cycleVars, ordererVars, killerVars>>
notCuckoo == <<ttVars, pickerVars, repVars, historyVars, searchVars, pvVars, lineVars, nnVars, nodeVars, heightVars, orderVars, aspirationVars, cycleVars, ordererVars, killerVars>>
notNN == <<ttVars, pickerVars, repVars, historyVars, searchVars, pvVars, lineVars, cuckooVars, nodeVars, heightVars, orderVars, aspirationVars, cycleVars, ordererVars, killerVars>>
notNode == <<ttVars, pickerVars, repVars, historyVars, searchVars, pvVars, lineVars, cuckooVars, nnVars, heightVars, orderVars, aspirationVars, cycleVars, ordererVars, killerVars>>
notHeight == <<ttVars, pickerVars, repVars, historyVars, searchVars, pvVars, lineVars, cuckooVars, nnVars, nodeVars, orderVars, aspirationVars, cycleVars, ordererVars, killerVars>>
notOrder == <<ttVars, pickerVars, repVars, historyVars, searchVars, pvVars, lineVars, cuckooVars, nnVars, nodeVars, heightVars, aspirationVars, cycleVars, ordererVars, killerVars>>
notAspiration == <<ttVars, pickerVars, repVars, historyVars, searchVars, pvVars, lineVars, cuckooVars, nnVars, nodeVars, heightVars, orderVars, cycleVars, ordererVars, killerVars>>
notCycle == <<ttVars, pickerVars, repVars, historyVars, searchVars, pvVars, lineVars, cuckooVars, nnVars, nodeVars, heightVars, orderVars, aspirationVars, ordererVars, killerVars>>
notOrderer == <<ttVars, pickerVars, repVars, historyVars, searchVars, pvVars, lineVars, cuckooVars, nnVars, nodeVars, heightVars, orderVars, aspirationVars, cycleVars, killerVars>>
notKiller == <<ttVars, pickerVars, repVars, historyVars, searchVars, pvVars, lineVars, cuckooVars, nnVars, nodeVars, heightVars, orderVars, aspirationVars, cycleVars, ordererVars>>

NextTT ==
    \/ (\E w \in Writers : StoreWriteKey(w)) /\ UNCHANGED notTT
    \/ (\E w \in Writers : StoreWriteEntry(w)) /\ UNCHANGED notTT
    \/ LoadReadKey /\ UNCHANGED notTT
    \/ LoadReadEntry /\ UNCHANGED notTT

SpecTT == InitTT /\ [][NextTT]_vars

NextPicker == PickMove /\ UNCHANGED notPicker

SpecPicker == InitPicker /\ [][NextPicker]_vars
\* the pickers whose killer slots and counter move are the invalid move, a
\* capture, a promotion, a quiet move or a move of another position
LiveCandidates == {0, BadCapture, QuietPromotion, FirstQuiet, ForeignMove}
InitPickerLive ==
    /\ InitPicker
    /\ pin.killers[1] \in LiveCandidates /\ pin.killers[2] \in LiveCandidates
    /\ pin.counter \in LiveCandidates
\* the caller's loop calls PickMove again as long as it returns true
SpecPickerLive == InitPickerLive /\ [][NextPicker]_vars /\ WF_vars(NextPicker)

NextRep ==
    \/ SearchDoMove /\ UNCHANGED notRep
    \/ SearchDoNullMove /\ UNCHANGED notRep
    \/ SearchReturn /\ UNCHANGED notRep
    \/ CallIsRepetition /\ UNCHANGED notRep

SpecRep == InitRep /\ [][NextRep]_vars

NextHistory ==
    \/ UpdateQuietMovesHistory /\ UNCHANGED notHistory
    \/ UpdateCapturesHistory /\ UNCHANGED notHistory

SpecHistory == InitHistory /\ [][NextHistory]_vars

NextSearch ==
    \/ DoSearchBegin /\ UNCHANGED notSearch
    \/ RootNegaMax /\ UNCHANGED notSearch
    \/ WritePvLine /\ UNCHANGED notSearch
    \/ EndOfDepth /\ UNCHANGED notSearch
    \/ TimePasses /\ UNCHANGED notSearch

SpecSearch == InitSearch /\ [][NextSearch]_vars

NextPv ==
    \/ RootUpdatePvArray /\ UNCHANGED notPv
    \/ DoSearchWritePv /\ UNCHANGED notPv
    \/ CallGetPvLine /\ UNCHANGED notPv

SpecPv == InitPv /\ [][NextPv]_vars

NextCuckoo == InitSquareA /\ UNCHANGED notCuckoo

SpecCuckoo == InitCuckoo /\ [][NextCuckoo]_vars

NextNN ==
    \/ CallLoad /\ UNCHANGED notNN
    \/ CallResize /\ UNCHANGED notNN
    \/ CallRelease /\ UNCHANGED notNN

SpecNN == InitNN /\ [][NextNN]_vars

NextNode ==
    \/ AspirationWindowSearch /\ UNCHANGED notNode
    \/ Descend /\ UNCHANGED notNode
    \/ NodeBegins(NodePositions) /\ UNCHANGED notNode
    \/ ChildReturns(FALSE) /\ UNCHANGED notNode
    \/ SearchEnds /\ UNCHANGED notNode

SpecNode == InitNode /\ [][NextNode]_vars

NextTable ==
    \/ AspirationWindowSearch /\ UNCHANGED notNode
    \/ Descend /\ UNCHANGED notNode
    \/ NodeBegins(TablePositions) /\ UNCHANGED notNode
    \/ ChildReturns(TRUE) /\ UNCHANGED notNode
    \/ SearchEnds /\ UNCHANGED notNode

SpecTable == InitNode /\ [][NextTable]_vars

(***************************************************************************)
(* C2, C8: the move picker.                                                *)
(***************************************************************************)
\* C2 (as claimed): over the lifetime of one MovePicker no move is yielded
\* twice, for any PV move, TT move, killer slots and counter move.
C2_NoMoveYieldedTwice ==
    \A i, j \in 1..Len(yielded) : i # j => yielded[i] # yielded[j]

StageRank(s) ==
    CASE s = "PVMove" -> 0 [] s = "TTMove" -> 1 [] s = "Captures" -> 2
      [] s = "Killer1" -> 3 [] s = "Killer2" -> 4 [] s = "Counter" -> 5
      [] s = "GenerateQuiets" -> 6 [] s = "PickQuiets" -> 7 [] OTHER -> 8

\* C8 (as claimed): the stage only moves forward through PVMove, TTMove,
\* Captures, Killer1, Killer2, Counter, GenerateQuiets, PickQuiets, End (no
\* block that has run lies after the current stage), and when quiets are
\* generated every stage has been entered by the time the picker is at End.
C8_StagesInOrderNoneSkipped ==
    /\ \A s \in entered : StageRank(s) <= StageRank(picker.stage)
    /\ (picker.stage = "End" /\ pin.generateQuiets) => entered = Stages \ {"End"}

(***************************************************************************)
(* C3: repetition inside the search stack.                                 *)
(***************************************************************************)
\* the ancestor j of the top node holds the top node's position, lies an even
\* number of plies above it, and no move played between them is a pawn move
\* or a capture
RepeatsAncestor(j) ==
    LET top == Len(stack)
    IN  /\ j < top
        /\ (top - j) % 2 = 0
        /\ stack[j].position = stack[top].position
        /\ \A k \in (j + 1)..top :
              ~(stack[k].previousMove.piece = "Pawn" \/ stack[k].previousMove.capture)

\* C3: IsRepetition returns true for a node whenever some ancestor at an even
\* ply distance holds an equal position and every move played between them is
\* reversible.
C3_RepetitionInStackDetected ==
    (repResult # "none" /\ \E j \in 1..Len(stack) : RepeatsAncestor(j)) => repResult = "true"

\* four reversible moves have brought the search back to the root position
\* and IsRepetition has been called there
C3_Witness ==
    /\ repResult = "true"
    /\ Len(stack) = 5
    /\ RepeatsAncestor(1)
    /\ ~RepeatsAncestor(3)
    /\ \A k \in 2..5 : stack[k].previousMove = ReversibleMove
    /\ game = {}

(***************************************************************************)
(* C4: range of the history counters.                                      *)
(***************************************************************************)
\* C4 (as claimed): starting from cleared tables, after any sequence of
\* UpdateQuietMovesHistory and UpdateCapturesHistory calls every history
\* counter stays within [-16384, 16384].
C4_HistoryCounterBounded == -16384 <= counter /\ counter <= 16384

(***************************************************************************)
(* C5, C7, C10: the iterative-deepening driver.                            *)
(***************************************************************************)
\* C5: if the root position has a legal move and maxDepth >= 1, DoSearch
\* returns with a non-empty move sequence in result[0], whatever the time
\* limit: the depth-1 iteration has run to its end before the search ends.
C5_FirstLineNonEmpty ==
    (ds.pc = "done" /\ rootPos.legal # {} /\ param.maxDepth >= 1)
        => /\ Len(result) >= 1
           /\ result[1].moves # <<>>
           /\ completed >= 1

\* the time ran out in the middle of the depth-1 iteration and the search
\* ended after it, with a first line
C5_Witness ==
    /\ ds.pc = "done"
    /\ stop.depth = 1 /\ stop.pc = "search"
    /\ param.maxDepth >= 2
    /\ completed = 1
    /\ result[1].moves # <<>>

\* C7: within one depth the PV lines of different pvIndex start with
\* pairwise different root moves: the search for pvIndex p never returns a
\* first move already returned for a smaller pvIndex at that depth.
C7_PvLinesStartDifferently ==
    ds.pc \in {"search", "write", "endOfDepth", "done"} =>
        \A i, j \in 1..Len(ds.pvMovesSoFar) :
            /\ result[i].moves # <<>>
            /\ ds.pvMovesSoFar[i] = Head(result[i].moves)
            /\ i < j => Head(result[i].moves) # Head(result[j].moves)

\* two lines written at a depth past the first
C7_Witness ==
    /\ ds.pc = "endOfDepth"
    /\ ds.depth >= 2
    /\ Len(ds.pvMovesSoFar) = 2

\* the time ran out during the first root search of a depth past the first:
\* nothing of that depth is written yet, result is the completed depth's
StoppedInIteration == stop.pc = "search" /\ stop.pvIndex = 0 /\ stop.depth >= 2

\* C10 (as claimed): when the stop condition becomes true while a depth
\* iteration is in progress, that iteration is abandoned and the result the
\* driver returns is exactly the result of the last completed depth.
C10_StoppedIterationAbandoned ==
    [][StoppedInIteration => (result' = result /\ completed' = completed)]_vars

(***************************************************************************)
(* C6: the PV lines.                                                       *)
(***************************************************************************)
\* the position after the first k moves of the line
RECURSIVE PositionAlong(_, _, _)
PositionAlong(pos, line, k) ==
    IF k = 0 THEN pos ELSE PositionAfter(PositionAlong(pos, line, k - 1), line[k])

\* the line is the first moves of the row, each valid and legal where it is
\* played, and it ends at the limit or at an entry that is not
LongestLegalPrefix(line, pos, row, limit) ==
    /\ Len(line) <= limit
    /\ \A i \in 1..Len(line) :
          LET at == PositionAlong(pos, line, i - 1)
          IN  /\ PackedOf(line[i]) = row[i - 1]
              /\ line[i] = MoveFromPackedAt(at, row[i - 1])
              /\ line[i].valid
              /\ DoMoveOk(at, line[i])
    /\ Len(line) < limit =>
          LET at == PositionAlong(pos, line, Len(line))
              move == MoveFromPackedAt(at, row[Len(line)])
          IN  ~move.valid \/ ~DoMoveOk(at, move)

ReversibleKeys ==
    { CuckooKey(Colors[q[1]], CuckooPieces[q[2]], q[3], q[4]) :
        q \in { t \in (1..Len(Colors)) \X (1..Len(CuckooPieces))
                        \X (0..(NumSquares - 1)) \X (0..(NumSquares - 1)) :
                  /\ t[3] # t[4]
                  /\ \/ Attacks(Colors[t[1]], CuckooPieces[t[2]], t[3], t[4])
                     \/ Attacks(Colors[t[1]], CuckooPieces[t[2]], t[4], t[3]) } }

\* C9: SearchUtils::Init inserts exactly 3668 reversible-move keys into the
\* cuckoo table: one per colour, per non-pawn piece type and per unordered
\* pair of squares where the piece attacks one square from the other on an
\* empty board.
C9_CuckooCount ==
    cuckoo.pc = "done" =>
        /\ count = ExpectedCount
        /\ Cardinality(cuckooKeys) = count
        /\ cuckooKeys = ReversibleKeys

\* Init has run through both colours
C9_Witness == cuckoo.pc = "done" /\ cuckoo.color = Len(Colors) /\ cuckooKeys # {}

(***************************************************************************)
(* C11: the return value of Load and what a failed Load leaves behind      *)
(***************************************************************************)
\* the file could be mapped
FileMapped(file) == file.fault = "none"

\* the conditions of a successful load, stated on the file
LoadConditions(platform, file) ==
    LET h == file.header
        layers == { i \in LayerIndices : \A j \in 0..i : h.layerSizes[j] # 0 }
    IN  /\ FileMapped(file)
        /\ h.magic = MagicNumber /\ h.version = CurrentVersion
        /\ h.layerSizes[0] \in 1..MaxInputs
        /\ h.layerSizes[1] \div 2 = AccumulatorSize
        /\ \A i \in layers : h.layerVariants[i] \in {0, 1, NumVariants}
        /\ Cardinality(layers) >= 2
        /\ HeaderSize + GetWeightsBufferSize(FixVariants(h, Cardinality(layers)),
                                             Cardinality(layers)) <= file.size

\* no mapping, no weights buffer, cleared header
NetworkReleased ==
    /\ nn.mappedData = "null" /\ ~nn.osView
    /\ nn.weightsBuffer = "null"
    /\ nn.header = ClearedHeader

\* C11: Load returns true only if the file could be mapped, magic and version
\* match, the input count is valid, the first layer's output size matches the
\* accumulator size, every layer's variant count is allowed, there are at least
\* 2 layers and the file is large enough; in every other case it returns false
\* and leaves the network released (no mapping, no weights buffer, cleared header)
C11_LoadAllOrNothing ==
    nnCall = "Load" =>
        IF LoadConditions(nnPlatform, nnFile) THEN nnRet
        ELSE ~nnRet /\ NetworkReleased

\* the same on the fields of the object alone: what a caller of the class can see
C11_FieldsReleased ==
    nnCall = "Load" =>
        IF LoadConditions(nnPlatform, nnFile) THEN nnRet
        ELSE /\ ~nnRet /\ nn.mappedData = "null" /\ nn.weightsBuffer = "null"
             /\ nn.header = ClearedHeader

\* on a build that is not for Windows the claim holds
C11_PosixAllOrNothing == nnPlatform = "posix" => C11_LoadAllOrNothing

(***************************************************************************)
(* C12: packed moves that are not moves of the position                    *)
(***************************************************************************)
\* the packed value is valid but is no move of the position
NotOfPosition(pm) == MoveIsValid(pm) /\ ~MoveIsValid(MoveFromPacked(pm))

\* C12: a packed move from the TT entry, a killer slot or the counter-move
\* table for which MoveFromPacked yields an invalid move is never yielded by
\* PickMove (every move yielded after the PV move is a move of the position),
\* and the call that met it went on to the next stage
C12_InvalidPackedMoveSkipped ==
    /\ \A i \in 1..Len(yielded) :
          yielded[i] \in PositionMoves \/ (i = 1 /\ yielded[1] = pin.pvMove)
    /\ (NotOfPosition(pin.ttMove) /\ "TTMove" \in entered) => "Captures" \in entered
    /\ (NotOfPosition(pin.killers[1]) /\ "Killer1" \in entered) => "Killer2" \in entered
    /\ (NotOfPosition(pin.killers[2]) /\ "Killer2" \in entered) => "Counter" \in entered
    /\ (NotOfPosition(pin.counter) /\ "Counter" \in entered) => "GenerateQuiets" \in entered

\* a picker given a first killer of another position (no PV move, an empty TT
\* entry, no second killer, no counter move) has run to its end and yielded
\* every move of the position
C12_Witness ==
    /\ NotOfPosition(pin.killers[1])
    /\ pin.pvMove = 0 /\ pin.ttMove = 0 /\ pin.killers[2] = 0 /\ pin.counter = 0
    /\ {"Killer1", "Killer2", "Counter"} \subseteq entered
    /\ lastRet = "falseAtEnd"
    /\ Len(yielded) = LastQuiet

\* a counter move of another position has been met and the picker went on
C12_WitnessCounter ==
    /\ NotOfPosition(pin.counter)
    /\ pin.counter \notin {pin.pvMove, pin.ttMove, pin.killers[1], pin.killers[2]}
    /\ "Counter" \in entered /\ lastRet = "falseAtEnd"

\* a TT move of another position has been met and the picker went on
C12_WitnessTT ==
    /\ NotOfPosition(pin.ttMove) /\ pin.pvMove # pin.ttMove
    /\ "TTMove" \in entered /\ Len(yielded) > 0

(***************************************************************************)
(* C13: mate scores in the transposition table                             *)
(***************************************************************************)
\* a score that tells a mate
IsMateScore(v) == Abs(v) >= CheckmateValue - 64

\* the conversions the claim speaks of: to a score counted from the position
\* of the entry, and back to one counted from the root through height
ScoreToTT(v, height) ==
    IF ~IsMateScore(v) THEN v ELSE IF v > 0 THEN v + height ELSE v - height
ScoreFromTT(v, height) ==
    IF ~IsMateScore(v) THEN v ELSE IF v > 0 THEN v - height ELSE v + height

\* NegaMax has returned the score of an exact entry of the table
ReturnedTableScore ==
    /\ node.pc = "returned" /\ node.kind = "NegaMax"
    /\ node.probed # NoEntry /\ node.probed.flag = FlagExact

\* C13: a mate score written to the table from height h1 is stored counted
\* from the position, and a hit at height h2 returns it shifted back by h2: a
\* hit never returns a mate distance measured from another height
C13_MateScoreShiftedToProbeHeight ==
    (ReturnedTableScore /\ IsMateScore(node.probed.score)) =>
        node.ret = ScoreFromTT(ScoreToTT(node.probed.score, node.probed.height), node.depth)

(***************************************************************************)
(* C14: the bound written to the transposition table                       *)
(***************************************************************************)
\* NegaMax has finished its move loop and written its entry
EntryWritten == node.pc = "returned" /\ node.written # NoEntry

\* C14: the bound stored at the end of a node is Upper exactly when no move
\* improved alpha, Lower exactly on a beta cutoff and Exact otherwise, also
\* where a bound of the table tightened alpha or beta before the move loop
C14_StoredBoundMatchesOutcome ==
    EntryWritten =>
        node.written.flag = IF ~node.improved THEN FlagUpperBound
                            ELSE IF node.betaCutoff THEN FlagLowerBound
                            ELSE FlagExact

(***************************************************************************)
(* C15: positions without a legal move                                     *)
(***************************************************************************)
\* NegaMax was called on a position that is not the root and has no legal
\* move, and has returned
ReturnedWithoutLegalMove ==
    /\ node.pc = "returned" /\ node.depth # 0
    /\ node.position.quiet = <<>>

\* C15: NegaMax on a position that is not the root and has no legal move
\* returns -CheckmateValue + height if the side to move is in check and 0
\* otherwise, at any remaining depth (at the horizon too, where quiescence
\* takes over)
C15_NoLegalMoveScore ==
    ReturnedWithoutLegalMove =>
        node.ret = IF node.position.isInCheck THEN -CheckmateValue + node.depth ELSE 0

\* the same for a node above the horizon whose window the mate score lies in
\* and that no entry of the table and no futility margin cuts short
C15_NoLegalMoveScoreInLoop ==
    (ReturnedWithoutLegalMove /\ node.kind = "NegaMax" /\ node.move = 0
        /\ node.probed = NoEntry /\ node.depth < node.maxDepth
        /\ (node.isPvNode \/ node.position.isInCheck)
        /\ PruneByMateDistance(node.depth, node.alpha, node.beta) = 0) =>
        node.ret = IF node.position.isInCheck THEN -CheckmateValue + node.depth ELSE 0

\* ---------------------------------------------------------------------------
\* Null move pruning (Search.cpp lines 676-709)
\* ---------------------------------------------------------------------------

\* the node is past line 677 and has played its null move
NullMovePlayed == node.pc # "idle" /\ node.nullMovePlayed

\* C16: NegaMax plays a null move only at a node that is not a PV node, is not
\* in check, has remaining depth >= 3, whose side to move has non-pawn
\* material, whose previous node was not reached by a null move, and whose
\* static evaluation is >= beta
C16_NullMoveOnlyWhenAllowed ==
    NullMovePlayed =>
        /\ ~node.isPvNode
        /\ ~node.position.isInCheck
        /\ InversedDepth(node) >= NullMovePrunningStartDepth
        /\ node.position.nonPawnMaterial
        /\ ~node.isNullMove
        /\ node.position.staticEval >= node.b

\* C16, the conditions line 677 and lines 679-684 do test
C16_NullMoveTested ==
    NullMovePlayed =>
        /\ ~node.isPvNode
        /\ ~node.position.isInCheck
        /\ InversedDepth(node) >= NullMovePrunningStartDepth
        /\ ~node.isNullMove
        /\ node.probed = NoEntry

\* C16, without the material of the side to move
C16_NullMoveButMaterial ==
    NullMovePlayed =>
        /\ ~node.isPvNode
        /\ ~node.position.isInCheck
        /\ InversedDepth(node) >= NullMovePrunningStartDepth
        /\ ~node.isNullMove
        /\ node.position.staticEval >= node.b

\* C16, without the static evaluation
C16_NullMoveButEval ==
    NullMovePlayed =>
        /\ ~node.isPvNode
        /\ ~node.position.isInCheck
        /\ InversedDepth(node) >= NullMovePrunningStartDepth
        /\ node.position.nonPawnMaterial
        /\ ~node.isNullMove

C17_WitnessNullChild ==
    /\ node.pc \in {"first", "probe"}
    /\ node.isNullMove
    /\ NullMoveCondition(node)
    /\ ~node.nullMovePlayed

\* ---------------------------------------------------------------------------
\* The window of every call (Search.cpp lines 219-273, 553-556, 856-886)
\* ---------------------------------------------------------------------------

\* C19: every NegaMax and QuiescenceNegaMax call (the root call of the
\* aspiration loop, the null move child, the zero-width probe, the full-window
\* searches and the children of the quiescence search) receives alpha < beta
C19_WindowOpen ==
    /\ node.pc # "idle" => node.alpha < node.beta
    /\ node.call # NoCall => node.call.alpha < node.call.beta

\* a node whose window was tightened by a bound of the table repeats the
\* search of a move with its full window
C19_Witness ==
    /\ node.pc = "research"
    /\ node.probed # NoEntry
    /\ node.call.window = "full"
    /\ node.call.alpha = -node.b /\ node.call.beta = -node.a

\* the other calls of C19: widened root window, null move child, zero-width
\* probe, child of the quiescence search, repeated search at full depth
C19_WitnessRoot ==
    /\ node.pc = "enter" /\ node.depth = 0 /\ node.beta < InfValue
    /\ \E s \in Evals : /\ node.alpha < AspirationStart(node.maxDepth, s).alpha
                        /\ node.beta > AspirationStart(node.maxDepth, s).beta
C19_WitnessNull == node.pc = "null" /\ node.call.window = "null"
C19_WitnessProbe == node.pc = "probe" /\ node.call.window = "zero"
C19_WitnessQuiescence == node.kind = "Quiescence" /\ node.call.window = "quiescence"
C19_WitnessRedo == node.pc = "redo" /\ node.call.window = "full"

\* ---------------------------------------------------------------------------
\* The score that raises alpha (Search.cpp lines 835-895)
\* ---------------------------------------------------------------------------

\* a move after the first legal one has raised alpha (lines 888-895)
LateMoveAccepted == node.accepted # NoneAccepted /\ node.accepted.numLegalMoves > 1

\* the search that gave the accepted score had the full window of the node
\* and the full depth of the move (lines 832, 882-885)
AcceptedFromFullSearch ==
    /\ node.accepted.call.alpha = -node.accepted.beta
    /\ node.accepted.call.beta = -node.accepted.alpha
    /\ node.accepted.call.maxDepth =
           node.maxDepth + (IF node.position.isInCheck THEN 1 ELSE 0)

\* C20 as stated: a move other than the first legal move raises alpha only
\* by a score of a search with the full window [-beta, -alpha] at full,
\* unreduced depth, never by the score of the zero-width probe or of a
\* reduced search alone
C20_RaisedOnlyByFullSearch == LateMoveAccepted => AcceptedFromFullSearch

\* C20: a move other than the first legal move is accepted with
\* alpha < score < beta only after a search with the full window at full
\* depth; the score of a reduced search never raises alpha, and the score of
\* the zero-width probe raises it only to beta or above, where the loop ends
C20_InWindowFromFullSearch ==
    LateMoveAccepted =>
        /\ node.accepted.alpha < node.accepted.score
               /\ node.accepted.score < node.accepted.beta
           => AcceptedFromFullSearch
        /\ node.accepted.call.maxDepth =
               node.maxDepth + (IF node.position.isInCheck THEN 1 ELSE 0)
        /\ ~AcceptedFromFullSearch =>
               /\ node.accepted.score >= node.accepted.beta
               /\ node.accepted.call.window = "zero"
               /\ node.accepted.reduction = 0
               /\ node.betaCutoff

\* a reduced second move is accepted with a score inside the window, after
\* the repeated search at full depth
C20_Witness ==
    /\ LateMoveAccepted
    /\ node.accepted.reduction > 0
    /\ node.accepted.alpha < node.accepted.score
    /\ node.accepted.score < node.accepted.beta
    /\ node.accepted.call.window = "full"

\* an unreduced second move is accepted inside the window after the
\* full-window search that follows its probe
C20_WitnessUnreduced ==
    /\ LateMoveAccepted
    /\ node.accepted.reduction = 0
    /\ node.accepted.alpha < node.accepted.score
    /\ node.accepted.score < node.accepted.beta
    /\ node.accepted.call.window = "full"

\* the probe of a second move fails high
C20_WitnessProbeCutoff ==
    /\ LateMoveAccepted
    /\ node.accepted.call.window = "zero"
    /\ node.accepted.beta > node.accepted.alpha + 1

(***************************************************************************)
(* The height of the calls of a search (Search.cpp lines 110, 246-258,     *)
(* 432-450, 553-563, 644-648, 676-723, 830-854).  A path of calls is       *)
(* followed from the root; each call is kept by its NodeInfo alone.        *)
(***************************************************************************)
MaxSearchDepth == 64

NoNodeInfo ==
    [kind |-> "idle", depth |-> 0, maxDepth |-> 0, isNullMove |-> FALSE,
     parentIsNullMove |-> FALSE]

InitHeight ==
    /\ nodeInfo = NoNodeInfo
    /\ pvIndexed = -1
    /\ node = Parked /\ ttable = Parked
    /\ slot = Parked /\ wr = Parked /\ rd = Parked /\ pin = Parked
    /\ picker = Parked /\ yielded = Parked /\ entered = Parked /\ lastRet = Parked
    /\ stack = Parked /\ game = Parked /\ repResult = Parked
    /\ followed = Parked /\ counter = Parked
    /\ rootPos = Parked /\ param = Parked /\ ds = Parked /\ asp = Parked
    /\ pvArray = Parked /\ pvLengths = Parked /\ result = Parked
    /\ timeUp = Parked /\ stop = Parked /\ completed = Parked /\ outLine = Parked
    /\ cuckoo = Parked /\ cuckooKeys = Parked /\ count = Parked
    /\ nnPlatform = Parked /\ nn = Parked /\ nnFile = Parked /\ nnCall = Parked /\ nnRet = Parked
    /\ ordering = Parked
    /\ aspiration = Parked
    /\ chain = Parked /\ cycle = Parked
    /\ history = Parked /\ lastCall = Parked
    /\ killerMoves = Parked

\* the call begins: pvLengths[node.depth] = node.depth (lines 436, 559)
EnterCall(info) ==
    /\ nodeInfo' = info
    /\ pvIndexed' = info.depth

\* the call running indexed the arrays in range; past an access out of range
\* nothing is known of the program
IndexedInRange == nodeInfo.kind # "idle" /\ nodeInfo.depth < MaxSearchDepth

\* NegaMax is above its horizon (line 645 is false)
AboveHorizon == nodeInfo.kind = "NegaMax" /\ nodeInfo.depth < nodeInfo.maxDepth

\* DoSearch line 110 and AspirationWindowSearch lines 246-258: the root call
\* of iteration depth, for param.maxDepth in 1..MaxSearchDepth
DoSearchIteration ==
    /\ nodeInfo.kind = "idle"
    /\ \E maxDepth \in 1..MaxSearchDepth : \E depth \in 1..maxDepth :
        EnterCall([kind |-> "NegaMax", depth |-> 0, maxDepth |-> depth,
                   isNullMove |-> FALSE, parentIsNullMove |-> FALSE])

\* lines 711-723 and 830-877: NegaMax searches a move, with the check
\* extension and the late move reduction
NegaMaxCallsChild ==
    /\ IndexedInRange /\ AboveHorizon
    /\ \E isInCheck \in BOOLEAN, reduced \in BOOLEAN, numReducedMoves \in {0, 16} :
        LET extension == IF isInCheck THEN 1 ELSE 0
            inversedDepth == nodeInfo.maxDepth - nodeInfo.depth
            reduction == IF reduced
                         THEN MaxOf(1, DivTrunc(numReducedMoves, LateMoveReductionRate))
                         ELSE 0
            childMaxDepth == nodeInfo.maxDepth + extension
        IN  /\ reduced => ~isInCheck /\ inversedDepth >= LateMoveReductionStartDepth
            /\ ~reduced => numReducedMoves = 0
            /\ ~(reduced /\ inversedDepth >= LateMovePrunningStartDepth
                         /\ reduction > childMaxDepth)
            /\ EnterCall([kind |-> "NegaMax", depth |-> nodeInfo.depth + 1,
                          maxDepth |-> childMaxDepth - reduction,
                          isNullMove |-> FALSE,
                          parentIsNullMove |-> nodeInfo.isNullMove])

\* lines 676-709: NegaMax searches the null move (the root is a PV node)
NegaMaxCallsNullMove ==
    /\ IndexedInRange /\ AboveHorizon
    /\ nodeInfo.depth # 0
    /\ nodeInfo.maxDepth - nodeInfo.depth >= NullMovePrunningStartDepth
    /\ DoNullMoveAllowed(nodeInfo)
    /\ EnterCall([kind |-> "NegaMax", depth |-> nodeInfo.depth + 1,
                  maxDepth |-> MaxOf(0, nodeInfo.maxDepth - NullMovePrunningDepthReduction),
                  isNullMove |-> TRUE,
                  parentIsNullMove |-> nodeInfo.isNullMove])

\* lines 644-648: at the horizon NegaMax hands its node to QuiescenceNegaMax
HorizonReached ==
    /\ IndexedInRange
    /\ nodeInfo.kind = "NegaMax" /\ nodeInfo.depth >= nodeInfo.maxDepth
    /\ EnterCall([nodeInfo EXCEPT !.kind = "Quiescence"])

\* lines 445-450 and 482-496: QuiescenceNegaMax searches a move; the child
\* gets depth + 1 and no maxDepthFractional
QuiescenceCallsChild ==
    /\ IndexedInRange
    /\ nodeInfo.kind = "Quiescence"
    /\ EnterCall([kind |-> "Quiescence", depth |-> nodeInfo.depth + 1, maxDepth |-> 0,
                  isNullMove |-> FALSE, parentIsNullMove |-> nodeInfo.isNullMove])

\* the calls of the path return to AspirationWindowSearch
CallsReturn ==
    /\ nodeInfo.kind # "idle"
    /\ nodeInfo' = NoNodeInfo
    /\ UNCHANGED pvIndexed

NextHeight ==
    \/ DoSearchIteration /\ UNCHANGED notHeight
    \/ NegaMaxCallsChild /\ UNCHANGED notHeight
    \/ NegaMaxCallsNullMove /\ UNCHANGED notHeight
    \/ HorizonReached /\ UNCHANGED notHeight
    \/ QuiescenceCallsChild /\ UNCHANGED notHeight
    \/ CallsReturn /\ UNCHANGED notHeight
SpecHeight == InitHeight /\ [][NextHeight]_vars

\* C18: for every maxDepth in 1..MaxSearchDepth each NegaMax and
\* QuiescenceNegaMax call of DoSearch has height < MaxSearchDepth, along
\* check extensions and the quiescence recursion too, so pvArray, pvLengths
\* and killerMoves are never indexed out of range
C18_HeightBelowMaxSearchDepth ==
    /\ nodeInfo.kind # "idle" => nodeInfo.depth < MaxSearchDepth
    /\ pvIndexed < MaxSearchDepth

\* C18 for the calls of NegaMax above their horizon alone, which index
\* killerMoves and call on
C18_AboveHorizonInRange == AboveHorizon => nodeInfo.depth < MaxSearchDepth

\* C18 for NegaMax alone
C18_NegaMaxInRange == nodeInfo.kind = "NegaMax" => nodeInfo.depth < MaxSearchDepth

\* C18 for QuiescenceNegaMax alone
C18_QuiescenceInRange == nodeInfo.kind = "Quiescence" => nodeInfo.depth < MaxSearchDepth

(***************************************************************************)
(* The ordering of the NegaMax move list (Search.cpp lines 280-337, 755-773,  *)
(* 800-802): FindPvMove, FindHistoryMoves and FindKillerMoves score the    *)
(* generated moves, the hash move is scored, PickBestMove takes the best.  *)
(***************************************************************************)
INT32_MAX == 2147483647
NumKillerMoves == 3
KillerMoveBonus == 100000
NumOrdered == 3             \* bound: moves of the generated list

OrderedMoves == 1..NumOrdered
\* a move of the list, a move that is not in the list, or 0 for no move
OrderedOrNone == 0..(NumOrdered + 1)
\* searchHistory counters; a counter above INT32_MAX scores like INT32_MAX
HistoryCounters == {0, 1000, INT32_MAX}
\* scores GenerateMoveList gives the moves of the list, by index
GeneratedScores == [i \in OrderedMoves |-> 100 * (i - 1)]

\* lines 280-308: the score of move m after FindPvMove
FindPvMove(isPvNode, pvMove, m, score) ==
    IF isPvNode /\ pvMove # 0 /\ m = pvMove THEN INT32_MAX ELSE score

\* lines 310-321: finalScore is an int64_t, taken as uint64_t by std::min
FindHistoryMoves(score, historyCounter) ==
    IF score < 0 /\ historyCounter < -score THEN INT32_MAX
    ELSE IF historyCounter >= INT32_MAX - score THEN INT32_MAX
    ELSE score + historyCounter

\* int32_t score += bonus: the sum, or on signed overflow what a build
\* gives, the sum wrapped to 32 bits or a trap
AddInt32(outcome, bonus) ==
    IF outcome.trapped THEN {outcome}
    ELSE IF outcome.score > INT32_MAX - bonus
    THEN {[trapped |-> FALSE,
           score |-> (outcome.score - INT32_MAX - 1 + bonus) + (-INT32_MAX - 1)],
          [trapped |-> TRUE, score |-> outcome.score]}
    ELSE {[trapped |-> FALSE, score |-> outcome.score + bonus]}

\* lines 323-337: the scores move m can have after killer slots j.. are done
RECURSIVE FindKillerMoves(_, _, _, _)
FindKillerMoves(killers, m, j, outcomes) ==
    IF j >= NumKillerMoves THEN outcomes
    ELSE FindKillerMoves(killers, m, j + 1,
             IF killers[j + 1] = m
             THEN UNION { AddInt32(o, KillerMoveBonus - j) : o \in outcomes }
             ELSE outcomes)

\* lines 757-773: the scores move m can have when the move loop begins
ScoreOutcomes(in, m) ==
    LET pv == FindPvMove(in.isPvNode, in.pvMove, m, GeneratedScores[m])
        scored == FindKillerMoves(in.killers, m, 0,
                      {[trapped |-> FALSE, score |-> FindHistoryMoves(pv, in.history[m])]})
    IN  IF in.numMoves <= 1 THEN {[trapped |-> FALSE, score |-> pv]}
        ELSE IF in.ttMove # 0 /\ in.ttMove = m
        THEN { [o EXCEPT !.score = IF o.trapped THEN o.score ELSE INT32_MAX - 1] :
               o \in scored }
        ELSE scored

\* MoveList::PickBestMove(0, ...): a move of the list with the greatest score
PickBestMove(numMoves, scores) ==
    { m \in 1..numMoves : \A o \in 1..numMoves : scores[o].score <= scores[m].score }

OrderInputs ==
    [isPvNode : BOOLEAN, numMoves : {1, NumOrdered}, pvMove : OrderedOrNone,
     ttMove : 0..NumOrdered, killers : [1..NumKillerMoves -> 0..2],
     history : [OrderedMoves -> HistoryCounters]]

NoScores == [m \in OrderedMoves |-> [trapped |-> FALSE, score |-> 0]]

InitOrder ==
    /\ ordering \in { [pc |-> "generated", in |-> in, scores |-> NoScores, first |-> 0] :
                   in \in { i \in OrderInputs : i.pvMove <= i.numMoves + 1
                                                /\ i.ttMove <= i.numMoves } }
    /\ nodeInfo = Parked /\ pvIndexed = Parked
    /\ node = Parked /\ ttable = Parked
    /\ slot = Parked /\ wr = Parked /\ rd = Parked /\ pin = Parked
    /\ picker = Parked /\ yielded = Parked /\ entered = Parked /\ lastRet = Parked
    /\ stack = Parked /\ game = Parked /\ repResult = Parked
    /\ followed = Parked /\ counter = Parked
    /\ rootPos = Parked /\ param = Parked /\ ds = Parked /\ asp = Parked
    /\ pvArray = Parked /\ pvLengths = Parked /\ result = Parked
    /\ timeUp = Parked /\ stop = Parked /\ completed = Parked /\ outLine = Parked
    /\ cuckoo = Parked /\ cuckooKeys = Parked /\ count = Parked
    /\ nnPlatform = Parked /\ nn = Parked /\ nnFile = Parked /\ nnCall = Parked /\ nnRet = Parked
    /\ aspiration = Parked
    /\ chain = Parked /\ cycle = Parked
    /\ history = Parked /\ lastCall = Parked
    /\ killerMoves = Parked

\* lines 755-802: the list is scored and the move loop takes its first move;
\* a trap ends the program before any move is searched
OrderMoves ==
    /\ ordering.pc = "generated"
    /\ \E scores \in [OrderedMoves -> UNION { ScoreOutcomes(ordering.in, m) : m \in OrderedMoves }] :
        /\ \A m \in OrderedMoves : scores[m] \in ScoreOutcomes(ordering.in, m)
        /\ IF \E m \in 1..ordering.in.numMoves : scores[m].trapped
           THEN ordering' = [ordering EXCEPT !.pc = "trapped", !.scores = scores]
           ELSE \E first \in PickBestMove(ordering.in.numMoves, scores) :
                    ordering' = [ordering EXCEPT !.pc = "picked", !.scores = scores,
                                           !.first = first]

NextOrder == OrderMoves /\ UNCHANGED notOrder
SpecOrder == InitOrder /\ [][NextOrder]_vars

\* the previous iteration's PV move of this ply is a move of the list of a
\* PV node
PvMoveGenerated ==
    /\ ordering.in.isPvNode
    /\ ordering.in.pvMove \in 1..ordering.in.numMoves

\* C21: at a PV node where the previous iteration's PV move of the ply is
\* among the generated moves, that move is the first move searched, whatever
\* its history counter and whether or not it is a killer move or the TT move
C21_PvMoveSearchedFirst ==
    PvMoveGenerated /\ ordering.pc # "generated"
        => ordering.pc = "picked" /\ ordering.first = ordering.in.pvMove

\* C21 where the PV move is no killer move and not the TT move, and no
\* other move of the list has a history counter that fills its score
C21_PlainPvMoveFirst ==
    /\ PvMoveGenerated /\ ordering.pc # "generated"
    /\ ordering.in.ttMove # ordering.in.pvMove
    /\ \A m \in OrderedMoves \ {ordering.in.pvMove} : ordering.in.history[m] < INT32_MAX
    /\ \A j \in 1..NumKillerMoves : ordering.in.killers[j] # ordering.in.pvMove
    => ordering.pc = "picked" /\ ordering.first = ordering.in.pvMove

\* C21 where the PV move is no killer move
C21_PvMoveNoKillerFirst ==
    /\ PvMoveGenerated /\ ordering.pc # "generated"
    /\ \A j \in 1..NumKillerMoves : ordering.in.killers[j] # ordering.in.pvMove
    => ordering.pc = "picked" /\ ordering.first = ordering.in.pvMove

(***************************************************************************)
(* The loop of AspirationWindowSearch (Search.cpp lines 219-273): the      *)
(* first window, the root search, and the widening of the window.          *)
(***************************************************************************)
AspirationDepths == {1, 3, 4, 5, 13, 14, MaxSearchDepth}
PreviousScores == {-CheckmateValue, -300, 0, 300, CheckmateValue}

\* a window that is left as it is
WidenNot(w) == w

\* a window moved outward by a width that stays the same
WidenByStep(w) ==
    [w EXCEPT !.alpha = w.alpha - w.aspirationWindow,
              !.beta = w.beta + w.aspirationWindow]

\* lines 264-266
Widen(w) ==
    [w EXCEPT !.alpha = w.alpha - w.aspirationWindow,
              !.beta = w.beta + w.aspirationWindow,
              !.aspirationWindow = w.aspirationWindow * 2]

\* the scores NegaMax returns for the root (line 258, asserted at line 260):
\* the ends of the score range, evaluations, and the scores at and next to
\* the bounds of the window
ClampScore(v) == MaxOf(-CheckmateValue, MinOf(CheckmateValue, v))
RootScores(w) ==
    {-CheckmateValue, CheckmateValue, -300, 0, 300}
        \cup { ClampScore(v) : v \in {w.alpha, w.alpha + 1, w.beta - 1, w.beta} }

IdleAspiration ==
    [pc |-> "idle", depth |-> 0, previousScore |-> 0, alpha |-> 0, beta |-> 0,
     aspirationWindow |-> 0, retries |-> 0, score |-> 0]

InitAspiration ==
    /\ aspiration = IdleAspiration
    /\ ordering = Parked
    /\ nodeInfo = Parked /\ pvIndexed = Parked
    /\ node = Parked /\ ttable = Parked
    /\ slot = Parked /\ wr = Parked /\ rd = Parked /\ pin = Parked
    /\ picker = Parked /\ yielded = Parked /\ entered = Parked /\ lastRet = Parked
    /\ stack = Parked /\ game = Parked /\ repResult = Parked
    /\ followed = Parked /\ counter = Parked
    /\ rootPos = Parked /\ param = Parked /\ ds = Parked /\ asp = Parked
    /\ pvArray = Parked /\ pvLengths = Parked /\ result = Parked
    /\ timeUp = Parked /\ stop = Parked /\ completed = Parked /\ outLine = Parked
    /\ cuckoo = Parked /\ cuckooKeys = Parked /\ count = Parked
    /\ nnPlatform = Parked /\ nn = Parked /\ nnFile = Parked /\ nnCall = Parked /\ nnRet = Parked
    /\ chain = Parked /\ cycle = Parked
    /\ history = Parked /\ lastCall = Parked
    /\ killerMoves = Parked

\* lines 221-234: AspirationWindowSearch is called and sets its first window
AspirationBegin ==
    /\ aspiration.pc \in {"idle", "returned"}
    /\ \E depth \in AspirationDepths, previousScore \in PreviousScores :
        LET w == AspirationStart(depth, previousScore)
        IN  aspiration' = [pc |-> "search", depth |-> depth,
                           previousScore |-> previousScore,
                           alpha |-> w.alpha, beta |-> w.beta,
                           aspirationWindow |-> w.aspirationWindow,
                           retries |-> 0, score |-> 0]

\* lines 236-272: NegaMax returns the score of the root; the window is
\* widened and the search repeated, or the score is returned
AspirationSearchReturns ==
    /\ aspiration.pc = "search"
    /\ \E score \in RootScores(aspiration) :
        IF score <= aspiration.alpha \/ score >= aspiration.beta
        THEN aspiration' = [Widen(aspiration) EXCEPT !.retries = @ + 1, !.score = score]
        ELSE aspiration' = [aspiration EXCEPT !.pc = "returned", !.score = score]

NextAspiration ==
    \/ AspirationBegin /\ UNCHANGED notAspiration
    \/ AspirationSearchReturns /\ UNCHANGED notAspiration
SpecAspiration == InitAspiration /\ [][NextAspiration]_vars
\* the root search returns (NegaMax is a finite recursion)
SpecAspirationLive == SpecAspiration /\ WF_vars(AspirationSearchReturns /\ UNCHANGED notAspiration)

RECURSIVE Pow2(_)
Pow2(k) == IF k = 0 THEN 1 ELSE 2 * Pow2(k - 1)

\* C22: for depth >= 4 the first window is previousScore -/+ w with
\* w = max(20, 200 - (depth - 4) * 20), every score at or outside a bound
\* moves both bounds outward so that the half-width doubles, and for
\* depth < 4 the window is [-InfValue, InfValue]
C22_AspirationWindow ==
    aspiration.pc # "idle" =>
        LET w == MaxOf(20, 200 - (aspiration.depth - 4) * 20)
            halfWidth == w * Pow2(aspiration.retries)
        IN  /\ aspiration.depth >= 4 =>
                /\ aspiration.alpha = aspiration.previousScore - halfWidth
                /\ aspiration.beta = aspiration.previousScore + halfWidth
            /\ aspiration.depth < 4 =>
                /\ aspiration.retries = 0
                /\ aspiration.alpha = -InfValue /\ aspiration.beta = InfValue

\* a window of depth >= 4 has been widened twice
C22_Witness ==
    /\ aspiration.pc = "search" /\ aspiration.depth >= 4
    /\ aspiration.retries = 2
    /\ aspiration.beta - aspiration.alpha = 8 * MaxOf(20, 200 - (aspiration.depth - 4) * 20)

\* the first window of a depth below 4
C22_WitnessFull ==
    aspiration.pc = "returned" /\ aspiration.depth < 4 /\ aspiration.beta = InfValue

\* alpha, beta and aspirationWindow are values of an int32_t
AspirationFitsInt32 ==
    \A v \in {aspiration.alpha, aspiration.beta, aspiration.aspirationWindow} :
        -INT32_MAX - 1 <= v /\ v <= INT32_MAX

\* C23: AspirationWindowSearch terminates: with every result of NegaMax in
\* [-CheckmateValue, CheckmateValue], after finitely many widenings a score
\* strictly inside the window is returned, and alpha, beta and the width of
\* the window never leave the range of a 32-bit integer
C23_AspirationTerminates ==
    /\ [](AspirationFitsInt32 /\ aspiration.retries <= 14)
    /\ [](aspiration.pc = "returned" =>
             aspiration.alpha < aspiration.score /\ aspiration.score < aspiration.beta)
    /\ (aspiration.pc = "search") ~> (aspiration.pc = "returned")

\* the search of a mate score after the narrowest window was widened to
\* cover the whole range of scores
C23_Witness ==
    /\ aspiration.pc = "returned"
    /\ aspiration.retries = 14
    /\ aspiration.score \in {-CheckmateValue, CheckmateValue}

(***************************************************************************)
(* SearchUtils::CanReachGameCycle (SearchUtils.cpp lines 70-120) on the    *)
(* stack of nodes from the root to the current node.  chain[i] is the node *)
(* of height i - 1.  What the cuckoo table, Bitboard::GetBetween and the   *)
(* occupancy of the position answer for an ancestor is an input.           *)
(***************************************************************************)
MaxChainHeight == 5         \* bound: the height of the deepest node

NoPreviousMove == [valid |-> FALSE, piece |-> "None", capture |-> FALSE, promotion |-> FALSE]
ChainMoves ==
    { [valid |-> TRUE, piece |-> "Knight", capture |-> FALSE, promotion |-> FALSE],
      [valid |-> TRUE, piece |-> "Knight", capture |-> TRUE, promotion |-> FALSE],
      [valid |-> TRUE, piece |-> "Pawn", capture |-> FALSE, promotion |-> FALSE],
      [valid |-> TRUE, piece |-> "Pawn", capture |-> FALSE, promotion |-> TRUE] }

\* Position::GetHalfMoveCount after a move: the moves since the last capture
\* or pawn move
HalfMoveCountAfter(halfMoveCount, mv) ==
    IF mv.piece = "Pawn" \/ mv.capture THEN 0 ELSE halfMoveCount + 1

\* what the lookup of one ancestor finds: the key in the cuckoo table, the
\* squares between the endpoints of its move free, a piece of the side to
\* move on an endpoint
CycleAnswers ==
    { [inTable |-> TRUE, betweenFree |-> TRUE, ownPiece |-> TRUE],
      [inTable |-> FALSE, betweenFree |-> TRUE, ownPiece |-> TRUE],
      [inTable |-> TRUE, betweenFree |-> FALSE, ownPiece |-> TRUE],
      [inTable |-> TRUE, betweenFree |-> TRUE, ownPiece |-> FALSE] }

\* a lookup that takes any move of the table whose path is free
CycleFoundAnyPiece(answer) == answer.inTable /\ answer.betweenFree

\* lines 101-116: the ancestor makes CanReachGameCycle return true
CycleFound(answer) == answer.inTable /\ answer.betweenFree /\ answer.ownPiece

\* lines 91-94: the walk goes on from currNode = st[cur] to st[cur - 2]
WalkGoesOn(st, cur) ==
    /\ ~(st[cur].height < 2)
    /\ ~(st[cur].isNullMove \/ st[cur - 1].isNullMove)
    /\ ~(st[cur].previousMove.capture \/ st[cur].previousMove.piece = "Pawn")
    /\ ~(st[cur - 1].previousMove.capture \/ st[cur].previousMove.piece = "Pawn")

\* lines 72-80: the tests before the walk, on the node st[top]
WalkBegins(st, top) ==
    /\ ~(st[top].halfMoveCount < 3)
    /\ ~(st[top].isNullMove \/ st[top].previousMove.capture
                            \/ st[top].previousMove.promotion)

\* lines 86-117: the loop, currNode = st[cur]; the ancestors examined and
\* the value returned
RECURSIVE CycleWalk(_, _, _, _)
CycleWalk(st, answers, cur, examined) ==
    IF ~WalkGoesOn(st, cur) THEN [ret |-> FALSE, examined |-> examined]
    ELSE IF CycleFound(answers[cur - 2])
    THEN [ret |-> TRUE, examined |-> examined \cup {cur - 2}]
    ELSE CycleWalk(st, answers, cur - 2, examined \cup {cur - 2})

\* SearchUtils::CanReachGameCycle(node) for the node on top of st
CanReachGameCycle(st, answers) ==
    IF WalkBegins(st, Len(st)) THEN CycleWalk(st, answers, Len(st) - 1, {})
    ELSE [ret |-> FALSE, examined |-> {}]

NoCycleCall == [called |-> FALSE, answers |-> <<>>, examined |-> {}, ret |-> FALSE]
RootHalfMoveCounts == {0, 3}

InitCycle ==
    /\ \E c \in RootHalfMoveCounts :
        chain = <<[height |-> 0, isNullMove |-> FALSE, previousMove |-> NoPreviousMove,
                   halfMoveCount |-> c]>>
    /\ cycle = NoCycleCall
    /\ aspiration = Parked
    /\ ordering = Parked
    /\ nodeInfo = Parked /\ pvIndexed = Parked
    /\ node = Parked /\ ttable = Parked
    /\ slot = Parked /\ wr = Parked /\ rd = Parked /\ pin = Parked
    /\ picker = Parked /\ yielded = Parked /\ entered = Parked /\ lastRet = Parked
    /\ stack = Parked /\ game = Parked /\ repResult = Parked
    /\ followed = Parked /\ counter = Parked
    /\ rootPos = Parked /\ param = Parked /\ ds = Parked /\ asp = Parked
    /\ pvArray = Parked /\ pvLengths = Parked /\ result = Parked
    /\ timeUp = Parked /\ stop = Parked /\ completed = Parked /\ outLine = Parked
    /\ cuckoo = Parked /\ cuckooKeys = Parked /\ count = Parked
    /\ nnPlatform = Parked /\ nn = Parked /\ nnFile = Parked /\ nnCall = Parked /\ nnRet = Parked
    /\ history = Parked /\ lastCall = Parked
    /\ killerMoves = Parked

\* the search plays a move and enters the child node
ChainDoMove ==
    /\ ~cycle.called
    /\ Len(chain) <= MaxChainHeight
    /\ \E mv \in ChainMoves :
        chain' = Append(chain,
                    [height |-> Len(chain), isNullMove |-> FALSE, previousMove |-> mv,
                     halfMoveCount |-> HalfMoveCountAfter(chain[Len(chain)].halfMoveCount, mv)])
    /\ UNCHANGED cycle

\* the search plays a null move and enters the child node
ChainDoNullMove ==
    /\ ~cycle.called
    /\ Len(chain) <= MaxChainHeight
    /\ chain' = Append(chain,
                  [height |-> Len(chain), isNullMove |-> TRUE, previousMove |-> NoPreviousMove,
                   halfMoveCount |-> chain[Len(chain)].halfMoveCount + 1])
    /\ UNCHANGED cycle

\* the nodes of the stack of n nodes that lie 3, 5, ... plies above the
\* current node: the nodes the walk can step to
AncestorsOf(n) == { a \in 1..n : n - a >= 3 /\ (n - a) % 2 = 1 }

\* CanReachGameCycle is called on the current node, which is not the root
CallCanReachGameCycle ==
    /\ ~cycle.called
    /\ Len(chain) >= 2
    /\ \E answers \in [AncestorsOf(Len(chain)) -> CycleAnswers] :
        LET out == CanReachGameCycle(chain, answers)
        IN  /\ \A i \in AncestorsOf(Len(chain)) :
                i \notin out.examined => answers[i] = CHOOSE a \in CycleAnswers : TRUE
            /\ cycle' = [called |-> TRUE, answers |-> answers,
                         examined |-> out.examined, ret |-> out.ret]
    /\ UNCHANGED chain

\* the search goes on from the node
CycleCallReturns ==
    /\ cycle.called
    /\ cycle' = NoCycleCall
    /\ UNCHANGED chain

NextCycle ==
    \/ ChainDoMove /\ UNCHANGED notCycle
    \/ ChainDoNullMove /\ UNCHANGED notCycle
    \/ CallCanReachGameCycle /\ UNCHANGED notCycle
    \/ CycleCallReturns /\ UNCHANGED notCycle
SpecCycle == InitCycle /\ [][NextCycle]_vars

\* the node examined is a node of the stack two plies above the one before,
\* beginning three plies above the current node
SteppingTwoPlies ==
    \A a \in cycle.examined :
        /\ a >= 1 /\ (Len(chain) - a) % 2 = 1 /\ Len(chain) - a >= 3
        /\ \A b \in 1..Len(chain) : (b > a /\ b <= Len(chain) - 3 /\ (b - a) % 2 = 0)
                                     => b \in cycle.examined

\* C24: at a node that is not the root CanReachGameCycle returns true exactly
\* when, for some ancestor it examines (stepping two plies up the stack), the
\* key is in the cuckoo table, no square strictly between the endpoints of
\* the stored move is occupied and an endpoint holds a piece of the side to
\* move; otherwise it returns false
C24_CycleExactlyOnExaminedHit ==
    cycle.called =>
        /\ SteppingTwoPlies
        /\ cycle.ret <=> \E a \in cycle.examined :
                            /\ cycle.answers[a].inTable
                            /\ cycle.answers[a].betweenFree
                            /\ cycle.answers[a].ownPiece

\* the second ancestor examined makes the call return true
C24_Witness ==
    /\ cycle.called /\ cycle.ret
    /\ Cardinality(cycle.examined) = 2

\* two ancestors are examined and the call returns false, each for another
\* reason
C24_WitnessFalse ==
    /\ cycle.called /\ ~cycle.ret
    /\ \E a, b \in cycle.examined :
        /\ ~cycle.answers[a].ownPiece
        /\ ~cycle.answers[b].betweenFree

\* the moves played between the node chain[a] and the current node
MovesSince(a) == { i \in 1..Len(chain) : i > a }

\* C25: CanReachGameCycle examines an ancestor only if none of the moves
\* played between that ancestor and the current node is a null move, a
\* capture or a pawn move
C25_ExaminedBehindReversibleMoves ==
    cycle.called =>
        \A a \in cycle.examined : \A i \in MovesSince(a) :
            /\ ~chain[i].isNullMove
            /\ ~chain[i].previousMove.capture
            /\ chain[i].previousMove.piece # "Pawn"

\* C25 for the first ancestor examined, three plies above the node
C25_FirstExaminedBehindReversibleMoves ==
    cycle.called =>
        \A a \in cycle.examined : a = Len(chain) - 3 =>
            \A i \in MovesSince(a) :
                /\ ~chain[i].isNullMove
                /\ ~chain[i].previousMove.capture
                /\ chain[i].previousMove.piece # "Pawn"

\* C25 for null moves and captures alone
C25_NoNullMoveOrCaptureBetween ==
    cycle.called =>
        \A a \in cycle.examined : \A i \in MovesSince(a) :
            ~chain[i].isNullMove /\ ~chain[i].previousMove.capture

(***************************************************************************)
(* MoveOrderer: UpdateQuietMovesHistory, UpdateCapturesHistory, NewSearch  *)
(* and Clear (src/unnamed/part_001 lines 142-241) on the counters that the *)
(* listed quiet moves address: history.quietMoveHistory[i] is the counter  *)
(* of listed move i, history.continuation[p][i] the counter it addresses   *)
(* through node.continuationHistories[p] (p = 0 lies in counterMoveHistory,*)
(* p = 1, 3, 5 in continuationHistory), history.capturesHistory the        *)
(* counter of one capture and history.killerMoves the killer moves of one  *)
(* ply.                                                                    *)
(***************************************************************************)
MaxOrdererCalls == 3        \* bound: the calls on the MoveOrderer

ListedQuiets == {1, 2}
ContinuationPointers == {0, 1, 3, 5}
QuietDepths == {0, 1, 2, 15}

\* the pointers InitContinuationHistoryPointers has set: it stops at the
\* first node that is the root or follows a null move (lines 124-140)
PointerSets == {{}, {0, 1}, {0, 1, 3, 5}}

ClearedHistory ==
    [quietMoveHistory |-> [i \in ListedQuiets |-> 0],
     continuation |-> [p \in ContinuationPointers |-> [i \in ListedQuiets |-> 0]],
     capturesHistory |-> 0,
     killerMoves |-> <<0, 0>>]

NoOrdererCall ==
    [fn |-> "none", depth |-> 0, numMoves |-> 0, bestMove |-> 0, applied |-> FALSE,
     bonus |-> 0, deltas |-> <<>>, before |-> ClearedHistory, calls |-> 0]

\* CounterType /= scaleDownFactor (line 148): the quotient of the int
\* division, truncated toward zero
ScaleDown(c) == DivTrunc(c, 2)

\* lines 183-205: the tables after the call; the listed moves are the
\* quiet moves 1..numMoves
QuietUpdate(h, depth, numMoves, bestMove, pointers) ==
    LET bonus == MinOf(128 * (depth - 1) + depth * depth, 2000)
        delta(i) == IF i = bestMove THEN bonus ELSE -bonus
    IN  [h EXCEPT
            !.quietMoveHistory =
                [i \in ListedQuiets |->
                    IF i <= numMoves THEN UpdateHistoryCounter(@[i], delta(i)) ELSE @[i]],
            !.continuation =
                [p \in ContinuationPointers |-> [i \in ListedQuiets |->
                    IF i <= numMoves /\ p \in pointers
                    THEN UpdateHistoryCounter(@[p][i], delta(i)) ELSE @[p][i]]]]

InitOrderer ==
    /\ history = ClearedHistory
    /\ lastCall = NoOrdererCall
    /\ killerMoves = Parked
    /\ chain = Parked /\ cycle = Parked
    /\ aspiration = Parked
    /\ ordering = Parked
    /\ nodeInfo = Parked /\ pvIndexed = Parked
    /\ node = Parked /\ ttable = Parked
    /\ slot = Parked /\ wr = Parked /\ rd = Parked /\ pin = Parked
    /\ picker = Parked /\ yielded = Parked /\ entered = Parked /\ lastRet = Parked
    /\ stack = Parked /\ game = Parked /\ repResult = Parked
    /\ followed = Parked /\ counter = Parked
    /\ rootPos = Parked /\ param = Parked /\ ds = Parked /\ asp = Parked
    /\ pvArray = Parked /\ pvLengths = Parked /\ result = Parked
    /\ timeUp = Parked /\ stop = Parked /\ completed = Parked /\ outLine = Parked
    /\ cuckoo = Parked /\ cuckooKeys = Parked /\ count = Parked
    /\ nnPlatform = Parked /\ nn = Parked /\ nnFile = Parked /\ nnCall = Parked /\ nnRet = Parked

\* MoveOrderer::UpdateQuietMovesHistory (lines 174-206), called with the
\* quiet moves tried at the node and the best move among them
OrdererUpdateQuiet ==
    /\ lastCall.calls < MaxOrdererCalls
    /\ \E depth \in QuietDepths, numMoves \in ListedQuiets, pointers \in PointerSets :
       \E bestMove \in 1..numMoves :
        LET applied == ~(numMoves <= 1 /\ depth < 2)
            bonus == MinOf(128 * (depth - 1) + depth * depth, 2000)
        IN  /\ history' = IF applied
                          THEN QuietUpdate(history, depth, numMoves, bestMove, pointers)
                          ELSE history
            /\ lastCall' = [fn |-> "UpdateQuietMovesHistory", depth |-> depth,
                            numMoves |-> numMoves, bestMove |-> bestMove,
                            applied |-> applied, bonus |-> bonus,
                            deltas |-> [i \in 1..numMoves |->
                                          IF i = bestMove THEN bonus ELSE -bonus],
                            before |-> history, calls |-> lastCall.calls + 1]

\* MoveOrderer::UpdateCapturesHistory (lines 208-241) with the followed
\* capture among the listed ones, as the best move or not
OrdererUpdateCaptures ==
    /\ lastCall.calls < MaxOrdererCalls
    /\ \E nodeDepth \in {-1, 2}, isBest \in BOOLEAN :
        LET bonus == CaptureBonus(MaxOf(0, nodeDepth))
        IN  /\ history' = [history EXCEPT
                             !.capturesHistory =
                                 UpdateHistoryCounter(@, IF isBest THEN bonus ELSE -bonus)]
            /\ lastCall' = [NoOrdererCall EXCEPT !.fn = "UpdateCapturesHistory",
                               !.depth = nodeDepth, !.numMoves = 2, !.applied = TRUE,
                               !.bonus = bonus, !.before = history,
                               !.calls = lastCall.calls + 1]

\* a quiet move that cut off becomes the first killer move of the ply,
\* unless it is one already
OrdererUpdateKillerMove ==
    /\ lastCall.calls < MaxOrdererCalls
    /\ \E move \in ListedQuiets :
        /\ move \notin {history.killerMoves[1], history.killerMoves[2]}
        /\ history' = [history EXCEPT !.killerMoves = <<move, @[1]>>]
        /\ lastCall' = [NoOrdererCall EXCEPT !.fn = "UpdateKillerMove", !.applied = TRUE,
                           !.before = history, !.calls = lastCall.calls + 1]

\* MoveOrderer::NewSearch (lines 142-152)
NewSearch ==
    /\ lastCall.calls < MaxOrdererCalls
    /\ history' = [history EXCEPT
                      !.quietMoveHistory = [i \in ListedQuiets |-> ScaleDown(@[i])],
                      !.killerMoves = <<0, 0>>]
    /\ lastCall' = [NoOrdererCall EXCEPT !.fn = "NewSearch", !.applied = TRUE,
                       !.before = history, !.calls = lastCall.calls + 1]

\* MoveOrderer::Clear (lines 154-161)
ClearOrderer ==
    /\ lastCall.calls < MaxOrdererCalls
    /\ history' = ClearedHistory
    /\ lastCall' = [NoOrdererCall EXCEPT !.fn = "Clear", !.applied = TRUE,
                       !.before = history, !.calls = lastCall.calls + 1]

NextOrderer ==
    \/ OrdererUpdateQuiet /\ UNCHANGED notOrderer
    \/ OrdererUpdateCaptures /\ UNCHANGED notOrderer
    \/ OrdererUpdateKillerMove /\ UNCHANGED notOrderer
    \/ NewSearch /\ UNCHANGED notOrderer
    \/ ClearOrderer /\ UNCHANGED notOrderer
SpecOrderer == InitOrderer /\ [][NextOrderer]_vars

\* the deltas of the last call are +bonus for the best move and -bonus for
\* every other listed move, and the counters moved by them
DeltasApplied ==
    /\ lastCall.bonus = MinOf(128 * (lastCall.depth - 1) + lastCall.depth * lastCall.depth, 2000)
    /\ \A i \in 1..lastCall.numMoves :
        /\ lastCall.deltas[i] = IF i = lastCall.bestMove THEN lastCall.bonus
                                                         ELSE -lastCall.bonus
        /\ history.quietMoveHistory[i] =
               UpdateHistoryCounter(lastCall.before.quietMoveHistory[i], lastCall.deltas[i])

\* C26: at every node depth at which UpdateQuietMovesHistory applies the
\* update, bonus = min(128 * (depth - 1) + depth^2, 2000) is positive, the
\* best move gets the delta +bonus and every other listed quiet move -bonus
C26_BonusPositive ==
    (lastCall.fn = "UpdateQuietMovesHistory" /\ lastCall.applied) =>
        /\ lastCall.bonus > 0
        /\ DeltasApplied

\* C26 for the calls with node.depth >= 1
C26_BonusPositiveFromDepthOne ==
    (lastCall.fn = "UpdateQuietMovesHistory" /\ lastCall.applied /\ lastCall.depth >= 1) =>
        /\ lastCall.bonus > 0
        /\ DeltasApplied

\* the counters of history h, all four tables
AllCounters(h) ==
    <<h.quietMoveHistory, h.capturesHistory,
      h.continuation[0], h.continuation[1], h.continuation[3], h.continuation[5]>>

\* C27: NewSearch scales every history counter of the MoveOrderer (quiet,
\* capture, continuation and counter-move history) down by 2 and clears the
\* killer moves
C27_NewSearchScalesEveryTable ==
    lastCall.fn = "NewSearch" =>
        /\ \A i \in ListedQuiets :
            /\ history.quietMoveHistory[i] = ScaleDown(lastCall.before.quietMoveHistory[i])
            /\ \A p \in ContinuationPointers :
                history.continuation[p][i] = ScaleDown(lastCall.before.continuation[p][i])
        /\ history.capturesHistory = ScaleDown(lastCall.before.capturesHistory)
        /\ history.killerMoves = <<0, 0>>

\* C27 for the table NewSearch touches: quietMoveHistory is scaled down by
\* 2, the killer moves are cleared, every other table is left as it is
C27_NewSearchScalesQuietHistory ==
    lastCall.fn = "NewSearch" =>
        /\ \A i \in ListedQuiets :
            /\ history.quietMoveHistory[i] = ScaleDown(lastCall.before.quietMoveHistory[i])
            /\ \A p \in ContinuationPointers :
                history.continuation[p][i] = lastCall.before.continuation[p][i]
        /\ history.capturesHistory = lastCall.before.capturesHistory
        /\ history.killerMoves = <<0, 0>>

(***************************************************************************)
(* Search::killerMoves and Search::RegisterKillerMove (Search.cpp lines    *)
(* 365-377), called by NegaMax on a beta cutoff (lines 897-907) with the   *)
(* move that cut off.  killerMoves[d + 1] is the row of node.depth = d, a  *)
(* slot holds the number of a move, 0 for the invalid move of the cleared  *)
(* table.                                                                  *)
(***************************************************************************)
MaxKillerDepth == 1         \* bound: node.depth of the nodes that cut off

InvalidKiller == 0
QuietCutoffMoves == {1, 2, 3, 4}
CaptureCutoffMoves == {5}
ClearedKillers == [d \in 1..(MaxKillerDepth + 1) |-> [j \in 1..NumKillerMoves |-> InvalidKiller]]

\* lines 372-376: the row after the shift and the insertion at slot 0
RegisterKillerMove(row, move) ==
    [j \in 1..NumKillerMoves |-> IF j = 1 THEN move ELSE row[j - 1]]

InitKiller ==
    /\ killerMoves = ClearedKillers
    /\ history = Parked /\ lastCall = Parked
    /\ chain = Parked /\ cycle = Parked
    /\ aspiration = Parked
    /\ ordering = Parked
    /\ nodeInfo = Parked /\ pvIndexed = Parked
    /\ node = Parked /\ ttable = Parked
    /\ slot = Parked /\ wr = Parked /\ rd = Parked /\ pin = Parked
    /\ picker = Parked /\ yielded = Parked /\ entered = Parked /\ lastRet = Parked
    /\ stack = Parked /\ game = Parked /\ repResult = Parked
    /\ followed = Parked /\ counter = Parked
    /\ rootPos = Parked /\ param = Parked /\ ds = Parked /\ asp = Parked
    /\ pvArray = Parked /\ pvLengths = Parked /\ result = Parked
    /\ timeUp = Parked /\ stop = Parked /\ completed = Parked /\ outLine = Parked
    /\ cuckoo = Parked /\ cuckooKeys = Parked /\ count = Parked
    /\ nnPlatform = Parked /\ nn = Parked /\ nnFile = Parked /\ nnCall = Parked /\ nnRet = Parked

\* NegaMax, lines 897-907: a move of the node scores at least beta
BetaCutoff ==
    \E d \in 0..MaxKillerDepth, move \in QuietCutoffMoves \cup CaptureCutoffMoves :
        killerMoves' =
            IF move \in CaptureCutoffMoves THEN killerMoves
            ELSE [killerMoves EXCEPT ![d + 1] = RegisterKillerMove(@, move)]

\* DoSearch, line 110: a new search clears the table
DoSearchClearsKillers ==
    /\ killerMoves # ClearedKillers
    /\ killerMoves' = ClearedKillers

NextKiller ==
    \/ BetaCutoff /\ UNCHANGED notKiller
    \/ DoSearchClearsKillers /\ UNCHANGED notKiller
SpecKiller == InitKiller /\ [][NextKiller]_vars

\* no valid move stands in two slots of the row
DistinctKillers(row) ==
    \A i, j \in 1..NumKillerMoves :
        (i # j /\ row[i] # InvalidKiller) => row[i] # row[j]

\* C28: after any sequence of beta cutoffs the killer slots of one ply never
\* hold the same valid move twice; registering a move that is a killer move
\* of the ply already makes no duplicate
C28_KillersDistinct ==
    \A d \in 0..MaxKillerDepth : DistinctKillers(killerMoves[d + 1])

\* C28 for the cutoffs by a move that is no killer move of the ply yet: they
\* keep the slots of the ply distinct
C28_FreshKillerKeepsDistinct ==
    [][\A d \in 0..MaxKillerDepth :
        (/\ DistinctKillers(killerMoves[d + 1])
         /\ \A j \in 1..NumKillerMoves : killerMoves'[d + 1][1] # killerMoves[d + 1][j])
        => DistinctKillers(killerMoves'[d + 1])]_vars

(***************************************************************************)
(* C29, C30: the end of the picker and the moves it has yielded by then.   *)
(***************************************************************************)
ReturnedFalse == lastRet \in {"false", "falseAtEnd"}

\* the moves yielded so far
YieldedMoves == { yielded[i] : i \in 1..Len(yielded) }

\* C29: for any inputs PickMove returns false after finitely many calls; it
\* returns false at stage End, and once it has returned false every later
\* call returns false and yields no move
C29_PickMoveEnds ==
    /\ <>ReturnedFalse
    /\ [](ReturnedFalse => picker.stage = "End")
    /\ [][ReturnedFalse => (lastRet' = "falseAtEnd" /\ yielded' = yielded /\ picker' = picker)]_vars

\* PickMove has returned false after it yielded moves at the stages of the
\* PV move, the captures, a killer move and the quiets, and a later call
\* has returned false again
C29_Witness ==
    /\ lastRet = "falseAtEnd"
    /\ {"PVMove", "Captures", "Killer1", "PickQuiets"} \subseteq entered
    /\ Len(yielded) >= 4

\* C30: when quiets are generated, every move of the position's move
\* generation (captures, promotions and quiets) has been yielded at least
\* once when PickMove returns false
C30_EveryGeneratedMoveYielded ==
    (ReturnedFalse /\ pin.generateQuiets) =>
        (GeneratedCaptures \cup GeneratedQuiets) \subseteq YieldedMoves

\* PickMove has returned false after the PV move, the TT move, a killer move
\* and the counter move, all moves of the position, were yielded at their
\* own stages, and the capture below the threshold among the quiets
C30_Witness ==
    /\ ReturnedFalse /\ pin.generateQuiets
    /\ pin.pvMove \in PositionMoves /\ pin.ttMove \in PositionMoves \ {pin.pvMove}
    /\ picker.killerMoves[1] \in QuietMoves
    /\ BadCapture \notin {pin.pvMove, pin.ttMove}
    /\ BadCapture \in YieldedMoves

\* the counter move was yielded at its own stage and removed from the quiets
C30_WitnessCounter ==
    /\ ReturnedFalse /\ pin.generateQuiets
    /\ picker.counterMove \in QuietMoves
    /\ Len(yielded) = Cardinality(PositionMoves)

====
